---- MODULE Spec2Model ----
(***************************************************************************)
(* The DiffDelta MCP server (v0.1.2, and the legacy v0.1.0): the cursor    *)
(* store, the tools that use it (diffdelta_check_head, diffdelta_poll and  *)
(* diffdelta_poll_source), the one-fetch tools that do not use it,         *)
(* and the fetches they issue.  A handler runs atomically between two      *)
(* awaits (JavaScript's single thread), so each action below is one        *)
(* continuation of a handler: from the arrival of a response to the next   *)
(* request or to the return.  The remote service is the environment: what  *)
(* a response carries is chosen when it arrives.                           *)
(***************************************************************************)
EXTENDS Integers, Sequences, FiniteSets, TLC

VARIABLES
  cursors,   \* the Map `cursors`: a function from the keys present to their cursor
  inv,       \* the invocations in flight, one per slot: position, arguments, locals
  lastEv,    \* the latest handler continuation that ran, and what it returned
  server     \* the version of the server that runs

vars == <<cursors, inv, lastEv, server>>

(***************************************************************************)
(* Bounds of the model.                                                    *)
(***************************************************************************)
\* How many distinct non-empty cursor tokens the remote service hands out.
NumCursors == 2

\* Invocations that may overlap.
Slots == {1, 2}

\* The largest risk score served, in tenths of the 0-10 scale.
MaxRiskTenths == 100

\* The length of the longest excerpt text served.
MaxExcerpt == 250

\* The largest count a head snapshot reports in the advice runs.
MaxCount == 2

(***************************************************************************)
(* JavaScript values.                                                      *)
(***************************************************************************)
\* `undefined`: an absent JSON field, a missing Map entry, an omitted argument.
Undefined == "<undefined>"

\* Truthiness of a string-or-undefined value: `if (v)`, `!v`, `v ? a : b`.
Truthy(v) == v # Undefined /\ v # ""

\* An optional array argument (z.optional(z.array(...))).
NoArray == [present |-> FALSE, v |-> <<>>]

Arr(s) == [present |-> TRUE, v |-> s]

\* `a?.length` as a condition: the array is given and not empty.
HasLength(a) == a.present /\ Len(a.v) > 0

\* Array.prototype.includes on a sequence.
Includes(s, x) == \E n \in 1..Len(s) : s[n] = x

\* `v || d` for a string-or-undefined v.
OrElse(v, d) == IF Truthy(v) THEN v ELSE d

NonEmptyCursors == {"c" \o ToString(n) : n \in 1..NumCursors}

\* What the `cursor` field of a head snapshot or of a feed document may hold.
SentCursors == {Undefined, ""} \cup NonEmptyCursors

(***************************************************************************)
(* fetchJson: one GET under the 15 s abort timer.                          *)
(***************************************************************************)
TIMEOUT == 15000

\* The version of the server that runs: the current one, or the legacy one.
VERSION == "0.1.2"

LegacyVersion == "0.1.0"

BASE_URL == "https://diffdelta.io"

\* What the network does with one request: no connection, no answer within
\* TIMEOUT (the abort fires), or an HTTP response.
NetworkReplies(Bodies) ==
  {[kind |-> "network", ok |-> FALSE, json |-> FALSE, data |-> Undefined],
   [kind |-> "timeout", ok |-> FALSE, json |-> FALSE, data |-> Undefined],
   [kind |-> "response", ok |-> FALSE, json |-> TRUE, data |-> Undefined],
   [kind |-> "response", ok |-> TRUE, json |-> FALSE, data |-> Undefined]}
  \cup {[kind |-> "response", ok |-> TRUE, json |-> TRUE, data |-> b] : b \in Bodies}

\* The error fetchJson throws for a reply, "none" when it returns the body.
FetchError(reply) ==
  IF reply.kind = "network" THEN "NetworkError"
  ELSE IF reply.kind = "timeout" THEN "TimeoutError"
  ELSE IF ~reply.ok THEN "HttpError"
  ELSE IF ~reply.json THEN "ParseError"
  ELSE "none"

FetchErrors == {"NetworkError", "TimeoutError", "HttpError", "ParseError"}

(***************************************************************************)
(* The cursor store.                                                       *)
(***************************************************************************)
\* cursors.get(key)
Get(store, key) == IF key \in DOMAIN store THEN store[key] ELSE Undefined

\* A slip: the store is rebuilt around the key that is set.
SetForgetsOthers(store, key, value) == [k \in {key} |-> value]

\* cursors.set(key, value)
Set(store, key, value) ==
  [k \in DOMAIN store \cup {key} |-> IF k = key THEN value ELSE store[k]]

\* A slip: the head check looks every feed up under the global key.
CheckHeadKeyGlobal(source_id) == "global"

\* The key of diffdelta_check_head: `source_id ? "source:" + source_id : "global"`.
CheckHeadKey(source_id) ==
  IF Truthy(source_id) THEN "source:" \o source_id ELSE "global"

\* The key of diffdelta_poll_source: "source:" + source_id, whatever the id.
\* A slip: the per-source poll uses the key of the global poll.
PollSourceKeyGlobal(source_id) == "global"

PollSourceKey(source_id) == "source:" \o source_id

\* The key of diffdelta_poll.
PollKey == "global"

(***************************************************************************)
(* What the remote service serves.                                         *)
(***************************************************************************)
BucketNames == {"flagged", "new", "updated", "removed"}

\* A head snapshot's `counts`: a mapping that may lack any of its fields.
NoCounts == [f \in {} |-> 0]

FlaggedOnly == [f \in {"flagged"} |-> 1]

NewNotFlagged == [f \in {"new", "flagged"} |-> IF f = "new" THEN 1 ELSE 0]

\* head.json bodies: {cursor, counts, all_clear, sources_checked, all_clear_confidence}.
HeadBodies(cursorSet, countsSet, allClearSet) ==
  [cursor : cursorSet, counts : countsSet, all_clear : allClearSet,
   sources_checked : {3}, all_clear_confidence : {"high"}]

\* JSON null where an item is expected.
NullItem == [null |-> TRUE]

IsNull(item) == "null" \in DOMAIN item

ItemA == [source |-> "a", headline |-> "h1"]

ItemB == [source |-> "b", headline |-> "h2"]

ItemNoSource == [source |-> Undefined, headline |-> "h3"]

\* `buckets` of a feed document: a mapping from some bucket names to item lists.
NewAndRemoved ==
  [b \in {"new", "removed"} |-> IF b = "new" THEN <<ItemA, ItemB>> ELSE <<ItemNoSource>>]

\* No `buckets` in the document, or an empty mapping.
NoBuckets == [b \in {} |-> <<>>]

\* Every bucket present and empty.
EmptyBuckets == [b \in BucketNames |-> <<>>]

\* Items in every bucket, the sources mixed.
AllBuckets ==
  [b \in BucketNames |->
     CASE b = "flagged" -> <<ItemB>>
       [] b = "new" -> <<ItemA, ItemNoSource>>
       [] b = "updated" -> <<ItemB, ItemA>>
       [] b = "removed" -> <<ItemA>>]

\* One item listed in two buckets.
TwiceListed ==
  [b \in {"flagged", "new"} |-> IF b = "flagged" THEN <<ItemA>> ELSE <<ItemA, ItemB>>]

\* latest.json bodies: {cursor, buckets, batch_narrative}.
DocBodies(cursorSet, bucketsSet, narrativeSet) ==
  [cursor : cursorSet, buckets : bucketsSet, batch_narrative : narrativeSet]

\* sources.json bodies: {sources: [{source_id, tags}]}.
SourcesAB ==
  [sources |-> Arr(<<[source_id |-> "a", tags |-> <<"security">>],
                     [source_id |-> "b", tags |-> <<"releases">>]>>)]

\* One id listed twice, with different tags.
SourcesTwice ==
  [sources |-> Arr(<<[source_id |-> "a", tags |-> <<"ops">>],
                     [source_id |-> "b", tags |-> <<"releases">>],
                     [source_id |-> "a", tags |-> <<"security">>]>>)]

\* A body without `sources`.
SourcesMissing == [sources |-> NoArray]

\* What the callers pass and the remote service serves in the three
\* specifications below: the source_id strings of diffdelta_check_head (with
\* Undefined for the omitted argument) and of diffdelta_poll_source (z.string()
\* admits the empty string), the bodies of head.json, latest.json and
\* sources.json, and the arguments of diffdelta_poll and diffdelta_poll_source.
Concurrent ==
  [checkIds |-> {Undefined, "a"},
   sourceIds |-> {"a"},
   heads |-> HeadBodies(NonEmptyCursors, {NoCounts}, {FALSE}),
   docs |-> DocBodies({""} \cup NonEmptyCursors, {NewAndRemoved}, {Undefined}),
   sourceLists |-> {SourcesAB},
   pollArgs |-> [tags : {NoArray, Arr(<<"security">>)}, sources : {NoArray},
                 include_removed : {FALSE}],
   pollSourceArgs |-> [include_removed : {FALSE}]]

Sequential ==
  [checkIds |-> {Undefined, "", "a"},
   sourceIds |-> {"", "a"},
   heads |-> HeadBodies({Undefined} \cup NonEmptyCursors,
                        {NoCounts, FlaggedOnly, NewNotFlagged}, BOOLEAN),
   docs |-> DocBodies(SentCursors, {NewAndRemoved}, {Undefined}),
   sourceLists |-> {SourcesAB},
   pollArgs |-> [tags : {NoArray, Arr(<<"security">>)}, sources : {NoArray},
                 include_removed : {FALSE}],
   pollSourceArgs |-> [include_removed : BOOLEAN]]

Filtering ==
  [checkIds |-> {Undefined},
   sourceIds |-> {"a"},
   heads |-> HeadBodies({"c1", "c2"}, {NoCounts}, BOOLEAN),
   docs |-> DocBodies({"c1"},
                      {NoBuckets, EmptyBuckets, NewAndRemoved, AllBuckets, TwiceListed},
                      {Undefined, "", "n1"}),
   sourceLists |-> {SourcesAB, SourcesTwice, SourcesMissing},
   pollArgs |-> [tags : {NoArray, Arr(<<>>), Arr(<<"security">>),
                         Arr(<<"ops", "releases">>)},
                 sources : {NoArray, Arr(<<>>), Arr(<<"a">>), Arr(<<"">>),
                            Arr(<<"b", "a">>)},
                 include_removed : BOOLEAN],
   pollSourceArgs |-> [include_removed : BOOLEAN]]

\* Items that differ in how they carry their risk: the modern score
\* (risk.score, 0-1), the legacy score (risk_score, 0-10), both, neither,
\* a `risk` without score, and the legacy server's summary.risk_score.
RiskItems ==
  {[source |-> "a", headline |-> "h1", risk |-> [score |-> 10 * t]] : t \in 0..MaxRiskTenths}
  \cup {[source |-> "a", headline |-> "h1", risk_score |-> 100 * t] : t \in 0..MaxRiskTenths}
  \cup {[source |-> "a", headline |-> "h1", risk |-> [score |-> 10 * t],
         risk_score |-> 100 * u] : t \in {0, 98}, u \in {0, 15}}
  \cup {[source |-> "a", headline |-> "h1", risk |-> [reasons |-> <<"kev">>],
         risk_score |-> 1500],
        [source |-> "a", headline |-> "h1", summary |-> [risk_score |-> 9800]],
        [source |-> "a", headline |-> "h1"]}

\* The length formatItem cuts an excerpt to: `excerpt.slice(0, 200)`.
ExcerptLimit == 200

\* A text of n characters, each character telling its position.
TextOf(n) == [k \in 1..n |-> ToString(k % 10)]

\* A text of n characters that no TextOf is a prefix of.
OtherTextOf(n) == [k \in 1..n |-> IF k = 1 THEN "s" ELSE ToString(k % 10)]

\* The lengths of the texts served: none, one character, around the cut,
\* and the longest.
TextLengths == {0, 1, ExcerptLimit - 1, ExcerptLimit, ExcerptLimit + 1, MaxExcerpt}

\* Items that differ in their content: an object with excerpt_text, with
\* summary, with both, with neither; a string; null; no content.
ContentItems ==
  {[source |-> "a", headline |-> "h1",
    content |-> [type |-> "object", excerpt_text |-> TextOf(n)]] : n \in TextLengths}
  \cup {[source |-> "a", headline |-> "h1",
         content |-> [type |-> "object", summary |-> OtherTextOf(n)]] : n \in TextLengths}
  \cup {[source |-> "a", headline |-> "h1",
         content |-> [type |-> "object", excerpt_text |-> TextOf(n),
                      summary |-> OtherTextOf(m)]] : n \in {0, ExcerptLimit + 1}, m \in {0, 1, MaxExcerpt}}
  \cup {[source |-> "a", headline |-> "h1",
         content |-> [type |-> "string", value |-> TextOf(n)]] : n \in TextLengths}
  \cup {[source |-> "a", headline |-> "h1", content |-> [type |-> "object"]],
        [source |-> "a", headline |-> "h1", content |-> [type |-> "null"]],
        [source |-> "a", headline |-> "h1", url |-> "u1",
         content |-> [type |-> "string", value |-> TextOf(ExcerptLimit + 1)]]}

\* One evidence signal of each kind, as short as the shape allows.
SignalOf(kind) ==
  CASE kind = "severity" -> [level |-> "high"]
    [] kind = "release" -> [version |-> "1.2"]
    [] kind = "incident" -> [status |-> "open"]
    [] kind = "deprecation" -> [type |-> "api"]

SignalKinds == {"severity", "release", "incident", "deprecation"}

\* Items that differ in their signals: every subset of the four kinds, no
\* `signals` at all, and signals with more or fewer of their inner fields.
SignalItems ==
  {[source |-> "a", headline |-> "h1", signals |-> [k \in ks |-> SignalOf(k)]] :
     ks \in SUBSET SignalKinds}
  \cup {[source |-> "a", headline |-> "h1", signals |-> sig] :
          sig \in {[suggested_action |-> "PATCH_IMMEDIATELY"],
                   [severity |-> [level |-> "critical", cvss |-> 9800, exploited |-> TRUE,
                                  provenance |-> [authority |-> "NVD"]],
                    suggested_action |-> "PATCH_IMMEDIATELY"],
                   [severity |-> [cvss |-> 7000, provenance |-> [evidence_url |-> "u2"]]],
                   [release |-> [security_patch |-> TRUE, prerelease |-> TRUE]],
                   [incident |-> [impact |-> "major"]],
                   [deprecation |-> [type |-> "api", affects |-> <<"x", "y">>]],
                   [deprecation |-> [affects |-> <<>>]]}}

\* Items that lack their source, their headline, or every field.
BareItems ==
  {[headline |-> "h1"], [source |-> "a"], [f \in {} |-> Undefined],
   [source |-> "a", headline |-> "h1", url |-> "u1", risk |-> [score |-> 980],
    signals |-> [severity |-> [level |-> "high"]],
    content |-> [type |-> "string", value |-> TextOf(1)]]}

\* A document that lists one item, as new.
OneItem(item) == [b \in {"new"} |-> <<item>>]

\* The same with the other buckets there and empty.
OneItemOfFour(item) == [b \in BucketNames |-> IF b = "new" THEN <<item>> ELSE <<>>]

\* Documents that lack their buckets, or some of them, or hold null where an
\* item is expected.
PartialBuckets ==
  {NoBuckets, EmptyBuckets, NewAndRemoved, OneItemOfFour(ItemA), OneItem(NullItem),
   [b \in {"updated"} |-> <<ItemA, NullItem>>],
   [b \in {"removed"} |-> <<NullItem>>]}

\* What the remote service serves in the check of the rendering.
Rendering ==
  [checkIds |-> {Undefined},
   sourceIds |-> {"a"},
   heads |-> HeadBodies({"c1", "c2"}, {NoCounts}, {FALSE}),
   docs |-> DocBodies({"c1"},
                      {OneItem(item) :
                         item \in RiskItems \cup ContentItems \cup SignalItems \cup BareItems}
                        \cup PartialBuckets,
                      {Undefined}),
   sourceLists |-> {SourcesAB},
   pollArgs |-> [tags : {NoArray, Arr(<<"security">>)}, sources : {NoArray},
                 include_removed : BOOLEAN],
   pollSourceArgs |-> [include_removed : {FALSE}]]

(***************************************************************************)
(* Rendering.                                                              *)
(***************************************************************************)
\* String.prototype.toUpperCase on a bucket name.
ToUpperCase(b) ==
  CASE b = "flagged" -> "FLAGGED"
    [] b = "new" -> "NEW"
    [] b = "updated" -> "UPDATED"
    [] b = "removed" -> "REMOVED"
    [] OTHER -> b

\* A value inside a template literal: `${v}`.
Template(v) == IF v = Undefined THEN "undefined" ELSE v

\* Array.prototype.join.
RECURSIVE Join(_, _)
Join(lines, sep) ==
  IF Len(lines) = 0 THEN ""
  ELSE IF Len(lines) = 1 THEN lines[1]
  ELSE lines[1] \o sep \o Join(Tail(lines), sep)

\* An optional field of an object: present or not.
Has(obj, f) == f \in DOMAIN obj

\* obj.f for a field that holds a string when it is there.
Field(obj, f) == IF f \in DOMAIN obj THEN obj[f] ELSE Undefined

\* Numbers are held as integers in thousandths (9800 is 9.8), which is exact
\* for the scores of the feed: tenths of the 0-10 scale, hundredths of the
\* 0-1 scale.  On these values the double arithmetic of the code differs
\* from the exact one by less than 1e-14, far from any rounding boundary of
\* toFixed(1).
Pad(n, width) ==
  (IF width >= 3 /\ n < 100 THEN "0" ELSE "") \o (IF width >= 2 /\ n < 10 THEN "0" ELSE "")
    \o ToString(n)

\* Number.prototype.toFixed(1): rounded to one decimal, the decimal always
\* written.
ToFixed1(m) ==
  LET tenths == (m + 50) \div 100
  IN ToString(tenths \div 10) \o "." \o ToString(tenths % 10)

\* `${n}` for a number: the shortest decimal, no trailing zeros, no point for
\* a whole number.
NumberToString(m) ==
  LET whole == m \div 1000
      frac == m % 1000
  IN IF frac = 0 THEN ToString(whole)
     ELSE IF frac % 100 = 0 THEN ToString(whole) \o "." \o ToString(frac \div 100)
     ELSE IF frac % 10 = 0 THEN ToString(whole) \o "." \o Pad(frac \div 10, 2)
     ELSE ToString(whole) \o "." \o Pad(frac, 3)

\* A text is the sequence of its characters; Concat is the string it spells.
RECURSIVE Concat(_)
Concat(chars) ==
  IF Len(chars) = 0 THEN ""
  ELSE IF Len(chars) = 1 THEN chars[1]
  ELSE LET half == Len(chars) \div 2
       IN Concat(SubSeq(chars, 1, half)) \o Concat(SubSeq(chars, half + 1, Len(chars)))

\* String.prototype.slice(0, end).
Slice0(chars, end) == SubSeq(chars, 1, IF Len(chars) < end THEN Len(chars) ELSE end)

\* `item.risk?.score ?? (item.risk_score ? item.risk_score / 10 : null)`:
\* the risk on the 0-1 scale, or null.
RiskOf(item) ==
  IF Has(item, "risk") /\ Has(item.risk, "score")
  THEN [present |-> TRUE, v |-> item.risk.score]
  ELSE IF Has(item, "risk_score") /\ item.risk_score # 0
       THEN [present |-> TRUE, v |-> item.risk_score \div 10]
       ELSE [present |-> FALSE, v |-> 0]

\* riskStr
RiskStr(item) ==
  LET risk == RiskOf(item)
  IN IF risk.present THEN " [risk: " \o ToFixed1(risk.v * 10) \o "/10]" ELSE ""

\* `item.signals || {}`
SignalsOf(item) == IF Has(item, "signals") THEN item.signals ELSE [f \in {} |-> Undefined]

\* The character U+1F534 of the EXPLOITED tag, which lies outside the
\* characters a string of this module can hold, by its code point.
RedCircle == "U+1F534"

\* The signal tags, in the order the code pushes them.
SignalTags(signals) ==
  (IF Has(signals, "severity")
   THEN LET sev == signals.severity
        IN <<"severity:" \o Template(Field(sev, "level"))
               \o (IF Has(sev, "cvss") /\ sev.cvss # 0
                   THEN "(" \o NumberToString(sev.cvss) \o ")" ELSE "")>>
             \o (IF Has(sev, "exploited") /\ sev.exploited THEN <<RedCircle \o " EXPLOITED">> ELSE <<>>)
   ELSE <<>>)
  \o (IF Has(signals, "release")
      THEN LET rel == signals.release
           IN <<"release:" \o (IF Truthy(Field(rel, "version")) THEN rel.version ELSE "?")
                  \o (IF Has(rel, "security_patch") /\ rel.security_patch
                      THEN " [SECURITY]" ELSE "")
                  \o (IF Has(rel, "prerelease") /\ rel.prerelease THEN " [pre]" ELSE "")>>
      ELSE <<>>)
  \o (IF Has(signals, "incident")
      THEN LET inc == signals.incident
           IN <<"incident:" \o Template(Field(inc, "status"))
                  \o (IF Truthy(Field(inc, "impact")) THEN "(" \o inc.impact \o ")" ELSE "")>>
      ELSE <<>>)
  \o (IF Has(signals, "deprecation")
      THEN LET dep == signals.deprecation
           IN <<"deprecation:" \o Template(Field(dep, "type"))
                  \o (IF Has(dep, "affects") /\ Len(dep.affects) > 0
                      THEN " affects:[" \o Join(dep.affects, ",") \o "]" ELSE "")>>
      ELSE <<>>)

\* signals.severity?.provenance?.authority
AuthorityOf(signals) ==
  IF Has(signals, "severity") /\ Has(signals.severity, "provenance")
  THEN Field(signals.severity.provenance, "authority")
  ELSE Undefined

\* excerpt: `content.excerpt_text || content.summary || ""` of an object,
\* the content itself when it is a string, else "".
ExcerptOf(item) ==
  IF ~Has(item, "content") THEN <<>>
  ELSE IF item.content.type = "object"
       THEN IF Has(item.content, "excerpt_text") /\ Len(item.content.excerpt_text) > 0
            THEN item.content.excerpt_text
            ELSE IF Has(item.content, "summary") /\ Len(item.content.summary) > 0
                 THEN item.content.summary
                 ELSE <<>>
       ELSE IF item.content.type = "string" THEN item.content.value
       ELSE <<>>

\* A slip: the cut is marked with an ellipsis.
ExcerptLineEllipsis(excerpt) ==
  IF Len(excerpt) = 0 THEN <<>>
  ELSE <<"  " \o Concat(Slice0(excerpt, ExcerptLimit))
           \o (IF Len(excerpt) > ExcerptLimit THEN "..." ELSE "")>>

\* `if (excerpt) lines.push(`  ${excerpt.slice(0, 200)}`)`
ExcerptLine(excerpt) ==
  IF Len(excerpt) = 0 THEN <<>>
  ELSE <<"  " \o Concat(Slice0(excerpt, ExcerptLimit))>>

\* formatItem: the lines of one item, joined.
FormatItem(item, bucket) ==
  LET signals == SignalsOf(item)
      action == Field(signals, "suggested_action")
      tags == SignalTags(signals)
  IN Join(<<"[" \o ToUpperCase(bucket) \o "]"
              \o (IF Truthy(action) THEN " ⚡" \o action ELSE "") \o " "
              \o Template(Field(item, "source")) \o ": "
              \o Template(Field(item, "headline")) \o RiskStr(item)>>
          \o (IF Len(tags) > 0 THEN <<"  Signals: " \o Join(tags, " | ")>> ELSE <<>>)
          \o (IF Truthy(AuthorityOf(signals))
              THEN <<"  Source: " \o AuthorityOf(signals)>> ELSE <<>>)
          \o (IF Truthy(Field(item, "url")) THEN <<"  URL: " \o item.url>> ELSE <<>>)
          \o ExcerptLine(ExcerptOf(item)),
          "\n")

\* A slip: flagged is appended to the legacy list instead of put first.
BucketListFlaggedLast(include_removed) ==
  IF include_removed THEN <<"new", "updated", "removed", "flagged">>
  ELSE <<"new", "updated", "flagged">>

\* The bucket list of a poll: `include_removed ? [...] : [...]`.
BucketList(include_removed) ==
  IF include_removed THEN <<"flagged", "new", "updated", "removed">>
  ELSE <<"flagged", "new", "updated">>

\* `rawBuckets[bucket] || []` after `feed.buckets || {}`.
BucketItems(feed, bucket) ==
  IF bucket \in DOMAIN feed.buckets THEN feed.buckets[bucket] ELSE <<>>

(***************************************************************************)
(* The filter loop of diffdelta_poll.                                      *)
(***************************************************************************)
\* The tag map when sources.json could not be fetched: `tagMap` stays null.
NoTagMap == [present |-> FALSE, map |-> [s \in {} |-> <<>>]]

\* new Map(sourcesData.sources.map((s) => [s.source_id, s.tags])): a later
\* entry of the same id replaces an earlier one.
MakeTagMap(body) ==
  LET srcs == body.sources.v
      ids == {srcs[n].source_id : n \in 1..Len(srcs)}
      last(id) == CHOOSE n \in 1..Len(srcs) :
                    /\ srcs[n].source_id = id
                    /\ \A m \in 1..Len(srcs) : srcs[m].source_id = id => m <= n
  IN [present |-> TRUE, map |-> [id \in ids |-> srcs[last(id)].tags]]

\* `tagMap.get(item.source || "") || []`
ItemTags(tagMap, item) ==
  LET id == OrElse(Field(item, "source"), "")
  IN IF id \in DOMAIN tagMap.map THEN tagMap.map[id] ELSE <<>>

\* A slip: the `|| ""` is dropped, so an item without a source never matches.
SourceSkipsNoSource(item, sources) ==
  HasLength(sources) /\ (item.source = Undefined \/ ~Includes(sources.v, item.source))

\* The source filter: `sources?.length && !sources.includes(item.source || "")`
\* skips the item.
SourceSkips(item, sources) ==
  HasLength(sources) /\ ~Includes(sources.v, OrElse(Field(item, "source"), ""))

\* A slip: `every` in place of `some`.
TagSkipsUnlessAll(item, tags, tagMap) ==
  /\ HasLength(tags)
  /\ tagMap.present
  /\ ~\A n \in 1..Len(tags.v) : Includes(ItemTags(tagMap, item), tags.v[n])

\* The tag filter: applied only when tags were given and the map was built.
TagSkips(item, tags, tagMap) ==
  /\ HasLength(tags)
  /\ tagMap.present
  /\ ~\E n \in 1..Len(tags.v) : Includes(ItemTags(tagMap, item), tags.v[n])

\* A slip: an item is skipped only when both filters reject it.
RECURSIVE KeepItemsOfEitherFilter(_, _, _, _, _)
KeepItemsOfEitherFilter(items, bucket, sources, tags, tagMap) ==
  IF Len(items) = 0 THEN <<>>
  ELSE LET rest == KeepItemsOfEitherFilter(Tail(items), bucket, sources, tags, tagMap)
       IN IF SourceSkips(items[1], sources) /\ TagSkips(items[1], tags, tagMap)
          THEN rest
          ELSE <<[item |-> items[1], bucket |-> bucket]>> \o rest

\* The items of one bucket that reach lines.push, in order.
RECURSIVE KeepItems(_, _, _, _, _)
KeepItems(items, bucket, sources, tags, tagMap) ==
  IF Len(items) = 0 THEN <<>>
  ELSE LET rest == KeepItems(Tail(items), bucket, sources, tags, tagMap)
       IN IF SourceSkips(items[1], sources) \/ TagSkips(items[1], tags, tagMap)
          THEN rest
          ELSE <<[item |-> items[1], bucket |-> bucket]>> \o rest

\* The (item, bucket) pairs the loop over `buckets` renders, in order.
RECURSIVE PollItems(_, _, _, _, _)
PollItems(feed, buckets, sources, tags, tagMap) ==
  IF Len(buckets) = 0 THEN <<>>
  ELSE KeepItems(BucketItems(feed, buckets[1]), buckets[1], sources, tags, tagMap)
         \o PollItems(feed, Tail(buckets), sources, tags, tagMap)

\* lines: formatItem of each pair.
RenderLines(pairs) == [n \in 1..Len(pairs) |-> FormatItem(pairs[n].item, pairs[n].bucket)]

\* A slip: the narrative is dropped when there is nothing to list.
WithNarrativeIfItems(feed, result) ==
  IF Truthy(feed.batch_narrative)
     /\ result \notin {"No matching items found.", "No items found."}
  THEN "Summary: " \o feed.batch_narrative \o "\n\n" \o result
  ELSE result

\* `Summary: ${narrative}\n\n${result}` when the document has a narrative.
WithNarrative(feed, result) ==
  IF Truthy(feed.batch_narrative)
  THEN "Summary: " \o feed.batch_narrative \o "\n\n" \o result
  ELSE result

\* A slip: the header counts the distinct items, one for an item listed in
\* two buckets.
PollTextCountsDistinct(feed, pairs) ==
  WithNarrative(feed,
    IF Len(pairs) > 0
    THEN Join(<<ToString(Cardinality({pairs[n].item : n \in 1..Len(pairs)}))
                  \o " item(s) found:", "">> \o RenderLines(pairs), "\n")
    ELSE "No matching items found.")

\* A slip that is no slip of this code: a document without items gets the
\* wording of formatFeedItems.
PollTextTellsEmpty(feed, pairs) ==
  WithNarrative(feed,
    IF Len(pairs) > 0
    THEN Join(<<ToString(Len(pairs)) \o " item(s) found:", "">> \o RenderLines(pairs), "\n")
    ELSE IF \A b \in DOMAIN feed.buckets : Len(feed.buckets[b]) = 0
         THEN "No items found."
         ELSE "No matching items found.")

\* The text diffdelta_poll returns after a full fetch.
PollText(feed, pairs) ==
  WithNarrative(feed,
    IF Len(pairs) > 0
    THEN Join(<<ToString(Len(pairs)) \o " item(s) found:", "">> \o RenderLines(pairs), "\n")
    ELSE "No matching items found.")

\* formatFeedItems: every item of the listed buckets, no filter.
FormatFeedItems(feed, buckets) ==
  LET pairs == PollItems(feed, buckets, NoArray, NoArray, NoTagMap)
  IN IF Len(pairs) = 0 THEN "No items found."
     ELSE Join(<<ToString(Len(pairs)) \o " item(s) found:", "">> \o RenderLines(pairs), "\n")

\* The text diffdelta_poll_source returns after a full fetch.
PollSourceText(feed, buckets) == WithNarrative(feed, FormatFeedItems(feed, buckets))

\* A slip: the short circuit returns the wording of an empty listing.
NoChangesSaysNoItems(head) == "No matching items found."

\* The text diffdelta_poll returns when the head cursor is the stored one.
NoChangesText(head) ==
  IF head.all_clear
  THEN "No changes since last poll. " \o ToString(head.sources_checked)
         \o " sources verified, all clear (confidence: "
         \o head.all_clear_confidence \o ")."
  ELSE "No changes since last poll. Feed is up to date."

\* The text diffdelta_poll_source returns when the head cursor is the stored one.
NoChangesInSourceText(source_id) == "No changes in " \o source_id \o " since last poll."

(***************************************************************************)
(* The invocations and the record of the latest continuation.              *)
(***************************************************************************)
NoArgs == [tags |-> NoArray, sources |-> NoArray, include_removed |-> FALSE]

NoFeed == [cursor |-> Undefined, buckets |-> NoBuckets, batch_narrative |-> Undefined]

\* A slot with no invocation in it.  reqs lists the URLs the invocation has
\* requested so far, wrote tells whether it has written the store.
IdleInv ==
  [pc |-> "idle", tool |-> "none", source_id |-> Undefined, args |-> NoArgs,
   newCursor |-> Undefined, feed |-> NoFeed, reqs |-> <<>>, wrote |-> FALSE]

\* An invocation that has issued its first request and awaits head.json.
Started(tool, source_id, args, url) ==
  [IdleInv EXCEPT !.pc = "head", !.tool = tool, !.source_id = source_id,
                  !.args = args, !.reqs = <<url>>]

\* No other invocation is in flight.
Quiet(i) == \A j \in Slots \ {i} : inv[j].pc = "idle"

NoOut ==
  [changed_since_last_check |-> FALSE, cursor |-> Undefined, source |-> "",
   counts |-> [f \in {"new", "updated", "removed", "flagged"} |-> 0], next_step |-> ""]

\* The record of a continuation of invocation v, v being the invocation as the
\* continuation leaves it: the step it ran at, the error of the fetch it
\* resumed from ("none": the body arrived), and how the handler went on:
\* "awaiting" its next request, "returned" a result, or "failed" (the error
\* went to the caller).  thrown is the error the handler's own code threw
\* after the body had arrived.  The results are written as changes of this
\* record.
Ev(v, key, step, error) ==
  [tool |-> v.tool, source_id |-> v.source_id, key |-> key, step |-> step,
   error |-> error, status |-> "returned", after |-> "none",
   newCursor |-> v.newCursor, feedCursor |-> Undefined, fetched |-> FALSE,
   out |-> NoOut, text |-> "", items |-> <<>>, reqs |-> v.reqs,
   args |-> v.args, feed |-> NoFeed, tagMap |-> NoTagMap, thrown |-> "none",
   headCounts |-> NoCounts]

NoEv == Ev(IdleInv, "", "none", "none")

\* The record of a continuation that ended with fetchJson throwing.
Failed(v, key, step, error) == [Ev(v, key, step, error) EXCEPT !.status = "failed"]

\* A slip: a bucket the document lacks is read as it is, not as `[]`, and
\* iterating it throws.
ThrowsOnAbsentBucket(feed, buckets) ==
  \E n \in 1..Len(buckets) :
     \/ buckets[n] \notin DOMAIN feed.buckets
     \/ \E k \in 1..Len(feed.buckets[buckets[n]]) : IsNull(feed.buckets[buckets[n]][k])

\* The loops over the listed buckets throw a TypeError: they read a property
\* of an item that is null (`item.source`, `item.signals`, `item.risk_score`).
\* Absent buckets are `[]`, absent fields are undefined: neither throws.
RenderThrows(feed, buckets) ==
  \E n \in 1..Len(buckets) :
     /\ buckets[n] \in DOMAIN feed.buckets
     /\ \E k \in 1..Len(feed.buckets[buckets[n]]) : IsNull(feed.buckets[buckets[n]][k])

\* The record of a continuation that received the document and threw while
\* listing it: the cursor is saved by then, the caller gets the error.
ThrewListing(v, key, feed, error) ==
  [Failed(v, key, v.pc, error) EXCEPT
     !.thrown = "TypeError", !.feedCursor = feed.cursor, !.fetched = TRUE, !.feed = feed]

\* What the continuation before this one was, for a continuation that reads
\* the head cursor of `key`: "check", a head check of the same key that
\* returned with the same head cursor; "fetch", a poll of the same key that
\* returned after a full fetch whose document carried that cursor.
After(key, cursor) ==
  IF lastEv.status = "returned" /\ lastEv.key = key
  THEN IF lastEv.tool = "diffdelta_check_head" /\ lastEv.out.cursor = cursor
       THEN "check"
       ELSE IF lastEv.fetched /\ lastEv.feedCursor = cursor THEN "fetch" ELSE "none"
  ELSE "none"

\* A server just started: an empty store, no invocation.
Fresh ==
  /\ cursors = [k \in {} |-> ""]
  /\ inv = [i \in Slots |-> IdleInv]
  /\ lastEv = NoEv

Init == Fresh /\ server = VERSION

LegacyInit == Fresh /\ server = LegacyVersion

\* Either server.
AnyInit == Fresh /\ server \in {VERSION, LegacyVersion}

(***************************************************************************)
(* diffdelta_check_head                                                    *)
(***************************************************************************)
CheckHeadUrl(source_id) ==
  IF Truthy(source_id) THEN BASE_URL \o "/diff/" \o source_id \o "/head.json"
  ELSE BASE_URL \o "/diff/head.json"

\* A slip: the `!storedCursor ||` of the comparison is dropped.
ChangedIfDiffers(storedCursor, cursor) == storedCursor # cursor

\* changedSinceLastCheck = !storedCursor || storedCursor !== cursor
ChangedSinceLastCheck(storedCursor, cursor) ==
  ~Truthy(storedCursor) \/ storedCursor # cursor

\* `counts.f || 0`
CountOr0(counts, f) == IF f \in DOMAIN counts /\ counts[f] # 0 THEN counts[f] ELSE 0

\* A slip: the new count is looked at before the flagged count.
NextStepNewFirst(changed, counts) ==
  IF changed
  THEN IF CountOr0(counts, "new") > 0
       THEN "New items available. Call diffdelta_poll to review."
       ELSE IF CountOr0(counts, "flagged") > 0
            THEN "Flagged items detected. Call diffdelta_poll to get items with action codes."
            ELSE "Cursor changed but no flagged/new items. Low priority."
  ELSE "No changes since last check. Feed is up to date."

\* next_step
NextStep(changed, counts) ==
  IF changed
  THEN IF CountOr0(counts, "flagged") > 0
       THEN "Flagged items detected. Call diffdelta_poll to get items with action codes."
       ELSE IF CountOr0(counts, "new") > 0
            THEN "New items available. Call diffdelta_poll to review."
            ELSE "Cursor changed but no flagged/new items. Low priority."
  ELSE "No changes since last check. Feed is up to date."

\* The object the handler serialises (the fields it copies from the snapshot
\* as they are, generated_at, ttl_sec and the like, are left out).
CheckHeadOut(source_id, data, changed) ==
  [changed_since_last_check |-> changed,
   cursor |-> data.cursor,
   source |-> OrElse(source_id, "global"),
   counts |-> [f \in {"new", "updated", "removed", "flagged"} |-> CountOr0(data.counts, f)],
   next_step |-> NextStep(changed, data.counts)]

\* A slip: the head check commits the snapshot's cursor.
CheckHeadStoreAdvances(store, cursorKey, cursor) ==
  IF Truthy(cursor) THEN Set(store, cursorKey, cursor) ELSE store

\* The store after the handler has run: it only reads.
CheckHeadStore(store, cursorKey, cursor) == store

StartCheckHead(i, D) ==
  /\ server = VERSION
  /\ inv[i].pc = "idle"
  /\ \E source_id \in D.checkIds :
       inv' = [inv EXCEPT ![i] =
                 Started("diffdelta_check_head", source_id, NoArgs, CheckHeadUrl(source_id))]
  /\ UNCHANGED <<cursors, lastEv>>
  /\ UNCHANGED server

CheckHeadReply(i, D) ==
  /\ server = VERSION
  /\ inv[i].pc = "head"
  /\ inv[i].tool = "diffdelta_check_head"
  /\ \E reply \in NetworkReplies(D.heads) :
       LET v == inv[i]
           cursorKey == CheckHeadKey(v.source_id)
       IN IF FetchError(reply) # "none"
          THEN /\ lastEv' = Failed(v, cursorKey, "head", FetchError(reply))
               /\ UNCHANGED cursors
          ELSE LET data == reply.data
                   storedCursor == Get(cursors, cursorKey)
                   changed == ChangedSinceLastCheck(storedCursor, data.cursor)
               IN /\ cursors' = CheckHeadStore(cursors, cursorKey, data.cursor)
                  /\ lastEv' = [Ev(v, cursorKey, "head", "none") EXCEPT
                                  !.newCursor = data.cursor,
                                  !.after = After(cursorKey, data.cursor),
                                  !.headCounts = data.counts,
                                  !.out = CheckHeadOut(v.source_id, data, changed)]
  /\ inv' = [inv EXCEPT ![i] = IdleInv]
  /\ UNCHANGED server

(***************************************************************************)
(* The steps diffdelta_poll and diffdelta_poll_source share.               *)
(***************************************************************************)
\* A slip: the comparison is inverted.
UnchangedInverted(storedCursor, newCursor) ==
  Truthy(storedCursor) /\ storedCursor # newCursor

\* `storedCursor && storedCursor === newCursor`: return without a full fetch.
Unchanged(storedCursor, newCursor) ==
  Truthy(storedCursor) /\ storedCursor = newCursor

\* A slip: the head snapshot's cursor is saved in place of the document's.
SaveHeadCursor(store, cursorKey, feed, newCursor) ==
  IF Truthy(feed.cursor) THEN Set(store, cursorKey, newCursor) ELSE store

\* A slip: the `if (feedCursor)` guard is dropped.
SaveUnguarded(store, cursorKey, feed, newCursor) == Set(store, cursorKey, feed.cursor)

\* `if (feedCursor) cursors.set(cursorKey, feedCursor)` with feedCursor = feed.cursor;
\* newCursor, the head snapshot's, is in scope.
SaveCursor(store, cursorKey, feed, newCursor) ==
  IF Truthy(feed.cursor) THEN Set(store, cursorKey, feed.cursor) ELSE store

\* A slip: the head snapshot's cursor is saved before the full fetch is made.
StoreOnErrorKeepsHead(store, cursorKey, newCursor) ==
  IF Truthy(newCursor) THEN Set(store, cursorKey, newCursor) ELSE store

\* The store when fetchJson threw: the handler is left before any write.
StoreOnError(store, cursorKey, newCursor) == store

\* Step 1 of both polls, the head snapshot having arrived: return `text` when
\* the stored cursor is the snapshot's, else request `latestUrl`.
HeadStep(i, cursorKey, headData, text, latestUrl) ==
  LET w == [inv[i] EXCEPT !.newCursor = headData.cursor]
      after == After(cursorKey, headData.cursor)
  IN IF Unchanged(Get(cursors, cursorKey), headData.cursor)
     THEN /\ lastEv' = [Ev(w, cursorKey, "head", "none") EXCEPT
                          !.after = after, !.text = text]
          /\ inv' = [inv EXCEPT ![i] = IdleInv]
          /\ UNCHANGED cursors
     ELSE LET x == [w EXCEPT !.pc = "feed", !.reqs = Append(w.reqs, latestUrl)]
          IN /\ lastEv' = [Ev(x, cursorKey, "head", "none") EXCEPT
                             !.after = after, !.status = "awaiting"]
             /\ inv' = [inv EXCEPT ![i] = x]
             /\ UNCHANGED cursors

\* A slip: after a timeout the handler starts over from head.json instead of
\* throwing.
FailStepRetriesTimeout(i, cursorKey, step, error, newCursor) ==
  IF error = "TimeoutError"
  THEN /\ lastEv' = [Ev(inv[i], cursorKey, step, error) EXCEPT !.status = "awaiting"]
       /\ inv' = [inv EXCEPT ![i] = [inv[i] EXCEPT !.pc = "head",
                                                   !.reqs = <<inv[i].reqs[1]>>]]
       /\ UNCHANGED cursors
  ELSE /\ lastEv' = Failed(inv[i], cursorKey, step, error)
       /\ inv' = [inv EXCEPT ![i] = IdleInv]
       /\ UNCHANGED cursors

\* A fetch of head.json or latest.json failed: the handler throws.
FailStep(i, cursorKey, step, error, newCursor) ==
  /\ lastEv' = Failed(inv[i], cursorKey, step, error)
  /\ inv' = [inv EXCEPT ![i] = IdleInv]
  /\ cursors' = StoreOnError(cursors, cursorKey, newCursor)

(***************************************************************************)
(* diffdelta_poll                                                          *)
(***************************************************************************)
PollHeadUrl == BASE_URL \o "/diff/head.json"

PollLatestUrl == BASE_URL \o "/diff/latest.json"

PollSourcesUrl == BASE_URL \o "/diff/sources.json"

StartPoll(i, D) ==
  /\ server = VERSION
  /\ inv[i].pc = "idle"
  /\ \E args \in D.pollArgs :
       inv' = [inv EXCEPT ![i] = Started("diffdelta_poll", Undefined, args, PollHeadUrl)]
  /\ UNCHANGED <<cursors, lastEv>>
  /\ UNCHANGED server

\* Step 1: the head snapshot arrives and is compared with the stored cursor.
PollHeadReply(i, D) ==
  /\ server = VERSION
  /\ inv[i].pc = "head"
  /\ inv[i].tool = "diffdelta_poll"
  /\ \E reply \in NetworkReplies(D.heads) :
       IF FetchError(reply) # "none"
       THEN FailStep(i, PollKey, "head", FetchError(reply), Undefined)
       ELSE HeadStep(i, PollKey, reply.data, NoChangesText(reply.data), PollLatestUrl)
  /\ UNCHANGED server

\* Step 4 to the return: filter, render, prepend the narrative.
PollReturn(v, feed, tagMap, error) ==
  IF RenderThrows(feed, BucketList(v.args.include_removed))
  THEN ThrewListing(v, PollKey, feed, error)
  ELSE LET pairs == PollItems(feed, BucketList(v.args.include_removed),
                              v.args.sources, v.args.tags, tagMap)
       IN [Ev(v, PollKey, v.pc, error) EXCEPT
             !.feedCursor = feed.cursor,
             !.fetched = TRUE,
             !.feed = feed,
             !.tagMap = tagMap,
             !.items = pairs,
             !.text = PollText(feed, pairs)]

\* A slip: sources.json is fetched whether or not tags were given.
AlwaysFetchesTags(args) == TRUE

\* `if (tags?.length)`: the poll fetches sources.json.
FetchesTags(args) == HasLength(args.tags)

\* Steps 2 and 3: the feed document arrives; the cursor is saved; with a tag
\* filter sources.json is requested, without one the handler goes on to return.
PollFeedReply(i, D) ==
  /\ server = VERSION
  /\ inv[i].pc = "feed"
  /\ inv[i].tool = "diffdelta_poll"
  /\ \E reply \in NetworkReplies(D.docs) :
       LET v == inv[i]
       IN IF FetchError(reply) # "none"
          THEN FailStep(i, PollKey, "feed", FetchError(reply), v.newCursor)
          ELSE LET feed == reply.data
               IN /\ cursors' = SaveCursor(cursors, PollKey, feed, v.newCursor)
                  /\ IF FetchesTags(v.args)
                     THEN LET x == [v EXCEPT !.pc = "sources", !.feed = feed,
                                             !.wrote = Truthy(feed.cursor),
                                             !.reqs = Append(v.reqs, PollSourcesUrl)]
                          IN /\ lastEv' = [Ev(x, PollKey, "feed", "none") EXCEPT
                                             !.status = "awaiting",
                                             !.feedCursor = feed.cursor,
                                             !.fetched = TRUE,
                                             !.feed = feed]
                             /\ inv' = [inv EXCEPT ![i] = x]
                     ELSE /\ lastEv' = PollReturn(v, feed, NoTagMap, "none")
                          /\ inv' = [inv EXCEPT ![i] = IdleInv]
  /\ UNCHANGED server

\* A slip: the catch leaves an empty map in place of null.
TagMapEmptyOnError(reply) ==
  IF FetchError(reply) # "none" \/ ~reply.data.sources.present
  THEN [present |-> TRUE, map |-> NoTagMap.map]
  ELSE MakeTagMap(reply.data)

\* The tag map after the try/catch around the sources.json fetch: null when
\* fetchJson threw, and when `sourcesData.sources.map` threw on a body
\* without `sources`.
TagMapOf(reply) ==
  IF FetchError(reply) # "none" \/ ~reply.data.sources.present
  THEN NoTagMap
  ELSE MakeTagMap(reply.data)

\* sources.json arrives, or its fetch fails and the catch swallows the error.
PollSourcesReply(i, D) ==
  /\ server = VERSION
  /\ inv[i].pc = "sources"
  /\ inv[i].tool = "diffdelta_poll"
  /\ \E reply \in NetworkReplies(D.sourceLists) :
       lastEv' = PollReturn(inv[i], inv[i].feed, TagMapOf(reply), FetchError(reply))
  /\ inv' = [inv EXCEPT ![i] = IdleInv]
  /\ UNCHANGED cursors
  /\ UNCHANGED server

(***************************************************************************)
(* diffdelta_poll_source                                                   *)
(***************************************************************************)
PollSourceHeadUrl(source_id) == BASE_URL \o "/diff/" \o source_id \o "/head.json"

PollSourceLatestUrl(source_id) == BASE_URL \o "/diff/" \o source_id \o "/latest.json"

StartPollSource(i, D) ==
  /\ server = VERSION
  /\ inv[i].pc = "idle"
  /\ \E source_id \in D.sourceIds, a \in D.pollSourceArgs :
       inv' = [inv EXCEPT ![i] =
                 Started("diffdelta_poll_source", source_id,
                         [NoArgs EXCEPT !.include_removed = a.include_removed],
                         PollSourceHeadUrl(source_id))]
  /\ UNCHANGED <<cursors, lastEv>>
  /\ UNCHANGED server

PollSourceHeadReply(i, D) ==
  /\ server = VERSION
  /\ inv[i].pc = "head"
  /\ inv[i].tool = "diffdelta_poll_source"
  /\ \E reply \in NetworkReplies(D.heads) :
       LET source_id == inv[i].source_id
       IN IF FetchError(reply) # "none"
          THEN FailStep(i, PollSourceKey(source_id), "head", FetchError(reply), Undefined)
          ELSE HeadStep(i, PollSourceKey(source_id), reply.data,
                        NoChangesInSourceText(source_id), PollSourceLatestUrl(source_id))
  /\ UNCHANGED server

PollSourceFeedReply(i, D) ==
  /\ server = VERSION
  /\ inv[i].pc = "feed"
  /\ inv[i].tool = "diffdelta_poll_source"
  /\ \E reply \in NetworkReplies(D.docs) :
       LET v == inv[i]
           cursorKey == PollSourceKey(v.source_id)
       IN IF FetchError(reply) # "none"
          THEN FailStep(i, cursorKey, "feed", FetchError(reply), v.newCursor)
          ELSE LET feed == reply.data
                   buckets == BucketList(v.args.include_removed)
               IN /\ cursors' = SaveCursor(cursors, cursorKey, feed, v.newCursor)
                  /\ lastEv' = IF RenderThrows(feed, buckets)
                               THEN ThrewListing(v, cursorKey, feed, "none")
                               ELSE [Ev(v, cursorKey, "feed", "none") EXCEPT
                                       !.feedCursor = feed.cursor,
                                       !.fetched = TRUE,
                                       !.feed = feed,
                                       !.items = PollItems(feed, buckets, NoArray,
                                                           NoArray, NoTagMap),
                                       !.text = PollSourceText(feed, buckets)]
                  /\ inv' = [inv EXCEPT ![i] = IdleInv]
  /\ UNCHANGED server

(***************************************************************************)
(* The legacy server, version 0.1.0: the same store and the same three     *)
(* tools; no flagged bucket, per-source URLs under /diff/source/, and a    *)
(* poll that filters by sources or else by tags.                           *)
(***************************************************************************)
\* The bucket list of a legacy poll.
LegacyBucketList(include_removed) ==
  IF include_removed THEN <<"new", "updated", "removed">> ELSE <<"new", "updated">>

\* `item.risk_score ?? item.summary?.risk_score ?? null` of the legacy server.
LegacyRiskOf(item) ==
  IF Has(item, "risk_score") THEN [present |-> TRUE, v |-> item.risk_score]
  ELSE IF Has(item, "summary") /\ Has(item.summary, "risk_score")
       THEN [present |-> TRUE, v |-> item.summary.risk_score]
       ELSE [present |-> FALSE, v |-> 0]

\* riskStr of the legacy server: ` [risk: ${risk}/10]`.
LegacyRiskStr(item) ==
  LET risk == LegacyRiskOf(item)
  IN IF risk.present THEN " [risk: " \o NumberToString(risk.v) \o "/10]" ELSE ""

\* formatItem of the legacy server.
LegacyFormatItem(item, bucket) ==
  Join(<<"[" \o ToUpperCase(bucket) \o "] " \o Template(Field(item, "source")) \o ": "
           \o Template(Field(item, "headline")) \o LegacyRiskStr(item)>>
       \o (IF Truthy(Field(item, "url")) THEN <<"  URL: " \o item.url>> ELSE <<>>)
       \o ExcerptLine(ExcerptOf(item)),
       "\n")

LegacyRenderLines(pairs) ==
  [n \in 1..Len(pairs) |-> LegacyFormatItem(pairs[n].item, pairs[n].bucket)]

\* The items of one bucket, each with the bucket, in order.
LegacyBucketPairs(feed, bucket) ==
  LET items == BucketItems(feed, bucket)
  IN [n \in 1..Len(items) |-> [item |-> items[n], bucket |-> bucket]]

\* The loop of formatFeedItems: every item of the listed buckets.
RECURSIVE LegacyAllItems(_, _)
LegacyAllItems(feed, buckets) ==
  IF Len(buckets) = 0 THEN <<>>
  ELSE LegacyBucketPairs(feed, buckets[1]) \o LegacyAllItems(feed, Tail(buckets))

\* The pairs of a list that pass `sources.includes(item.source || "")`.
RECURSIVE LegacySourceFiltered(_, _)
LegacySourceFiltered(pairs, sources) ==
  IF Len(pairs) = 0 THEN <<>>
  ELSE (IF Includes(sources.v, OrElse(Field(pairs[1].item, "source"), ""))
        THEN <<pairs[1]>> ELSE <<>>)
         \o LegacySourceFiltered(Tail(pairs), sources)

\* The pairs of a list that pass `tags.some((t) => itemTags.includes(t))`.
RECURSIVE LegacyTagFiltered(_, _, _)
LegacyTagFiltered(pairs, tags, tagMap) ==
  IF Len(pairs) = 0 THEN <<>>
  ELSE (IF \E n \in 1..Len(tags.v) :
              Includes(ItemTags(tagMap, pairs[1].item), tags.v[n])
        THEN <<pairs[1]>> ELSE <<>>)
         \o LegacyTagFiltered(Tail(pairs), tags, tagMap)

\* `tags?.length && !sources?.length`: the legacy poll fetches sources.json.
LegacyFetchesTags(args) == HasLength(args.tags) /\ ~HasLength(args.sources)

\* The pairs the legacy poll renders: those of the source filter when sources
\* were given, else those of the tag filter when it ran, else all.
LegacyPollItems(feed, args, tagMap) ==
  LET all == LegacyAllItems(feed, LegacyBucketList(args.include_removed))
  IN IF HasLength(args.sources) THEN LegacySourceFiltered(all, args.sources)
     ELSE IF LegacyFetchesTags(args) /\ tagMap.present
          THEN LegacyTagFiltered(all, args.tags, tagMap)
          ELSE all

\* `result` of the legacy poll before the narrative.
LegacyResult(feed, args, tagMap) ==
  LET pairs == LegacyPollItems(feed, args, tagMap)
      lines == LegacyRenderLines(pairs)
      count == ToString(Len(pairs))
  IN IF HasLength(args.sources)
     THEN IF Len(pairs) > 0
          THEN Join(<<count \o " item(s) matching sources ["
                        \o Join(args.sources.v, ", ") \o "]:", "">> \o lines, "\n")
          ELSE "No items from sources [" \o Join(args.sources.v, ", ") \o "]."
     ELSE IF LegacyFetchesTags(args) /\ tagMap.present
          THEN IF Len(pairs) > 0
               THEN Join(<<count \o " item(s) matching tags ["
                             \o Join(args.tags.v, ", ") \o "]:", "">> \o lines, "\n")
               ELSE "No items matching tags [" \o Join(args.tags.v, ", ") \o "]."
          ELSE IF Len(pairs) = 0 THEN "No items found."
               ELSE Join(<<count \o " item(s) found:", "">> \o lines, "\n")

LegacyNoChangesText == "No changes since last poll. Feed is up to date."

LegacyCheckHeadUrl(source_id) ==
  IF Truthy(source_id) THEN BASE_URL \o "/diff/source/" \o source_id \o "/head.json"
  ELSE BASE_URL \o "/diff/head.json"

LegacyPollSourceHeadUrl(source_id) ==
  BASE_URL \o "/diff/source/" \o source_id \o "/head.json"

LegacyPollSourceLatestUrl(source_id) ==
  BASE_URL \o "/diff/source/" \o source_id \o "/latest.json"

\* The object the legacy head check serialises: `changed` and `note` are
\* recorded in the fields changed_since_last_check and next_step.
LegacyCheckHeadOut(source_id, data, changed) ==
  [NoOut EXCEPT
     !.changed_since_last_check = changed,
     !.cursor = data.cursor,
     !.source = OrElse(source_id, "global"),
     !.next_step = IF changed
                   THEN "Feed has new content. Call diffdelta_poll to retrieve items."
                   ELSE "No changes since last check. No need to fetch the full feed."]

LegacyStartCheckHead(i, D) ==
  /\ server = LegacyVersion
  /\ inv[i].pc = "idle"
  /\ \E source_id \in D.checkIds :
       inv' = [inv EXCEPT ![i] =
                 Started("diffdelta_check_head", source_id, NoArgs,
                         LegacyCheckHeadUrl(source_id))]
  /\ UNCHANGED <<cursors, lastEv>>
  /\ UNCHANGED server

LegacyCheckHeadReply(i, D) ==
  /\ server = LegacyVersion
  /\ inv[i].pc = "head"
  /\ inv[i].tool = "diffdelta_check_head"
  /\ \E reply \in NetworkReplies(D.heads) :
       LET v == inv[i]
           cursorKey == CheckHeadKey(v.source_id)
       IN IF FetchError(reply) # "none"
          THEN /\ lastEv' = Failed(v, cursorKey, "head", FetchError(reply))
               /\ UNCHANGED cursors
          ELSE LET data == reply.data
                   changed == ChangedSinceLastCheck(Get(cursors, cursorKey), data.cursor)
               IN /\ UNCHANGED cursors
                  /\ lastEv' = [Ev(v, cursorKey, "head", "none") EXCEPT
                                  !.newCursor = data.cursor,
                                  !.after = After(cursorKey, data.cursor),
                                  !.out = LegacyCheckHeadOut(v.source_id, data, changed)]
  /\ inv' = [inv EXCEPT ![i] = IdleInv]
  /\ UNCHANGED server

LegacyStartPoll(i, D) ==
  /\ server = LegacyVersion
  /\ inv[i].pc = "idle"
  /\ \E args \in D.pollArgs :
       inv' = [inv EXCEPT ![i] = Started("diffdelta_poll", Undefined, args, PollHeadUrl)]
  /\ UNCHANGED <<cursors, lastEv>>
  /\ UNCHANGED server

LegacyPollHeadReply(i, D) ==
  /\ server = LegacyVersion
  /\ inv[i].pc = "head"
  /\ inv[i].tool = "diffdelta_poll"
  /\ \E reply \in NetworkReplies(D.heads) :
       IF FetchError(reply) # "none"
       THEN FailStep(i, PollKey, "head", FetchError(reply), Undefined)
       ELSE HeadStep(i, PollKey, reply.data, LegacyNoChangesText, PollLatestUrl)
  /\ UNCHANGED server

\* Step 4 of the legacy poll to its return.
LegacyPollReturn(v, feed, tagMap, error) ==
  IF RenderThrows(feed, LegacyBucketList(v.args.include_removed))
  THEN ThrewListing(v, PollKey, feed, error)
  ELSE [Ev(v, PollKey, v.pc, error) EXCEPT
          !.feedCursor = feed.cursor,
          !.fetched = TRUE,
          !.feed = feed,
          !.tagMap = tagMap,
          !.items = LegacyPollItems(feed, v.args, tagMap),
          !.text = WithNarrative(feed, LegacyResult(feed, v.args, tagMap))]

LegacyPollFeedReply(i, D) ==
  /\ server = LegacyVersion
  /\ inv[i].pc = "feed"
  /\ inv[i].tool = "diffdelta_poll"
  /\ \E reply \in NetworkReplies(D.docs) :
       LET v == inv[i]
       IN IF FetchError(reply) # "none"
          THEN FailStep(i, PollKey, "feed", FetchError(reply), v.newCursor)
          ELSE LET feed == reply.data
               IN /\ cursors' = SaveCursor(cursors, PollKey, feed, v.newCursor)
                  /\ IF LegacyFetchesTags(v.args)
                        /\ ~RenderThrows(feed, LegacyBucketList(v.args.include_removed))
                     THEN LET x == [v EXCEPT !.pc = "sources", !.feed = feed,
                                             !.wrote = Truthy(feed.cursor),
                                             !.reqs = Append(v.reqs, PollSourcesUrl)]
                          IN /\ lastEv' = [Ev(x, PollKey, "feed", "none") EXCEPT
                                             !.status = "awaiting",
                                             !.feedCursor = feed.cursor,
                                             !.fetched = TRUE,
                                             !.feed = feed]
                             /\ inv' = [inv EXCEPT ![i] = x]
                     ELSE /\ lastEv' = LegacyPollReturn(v, feed, NoTagMap, "none")
                          /\ inv' = [inv EXCEPT ![i] = IdleInv]
  /\ UNCHANGED server

\* sources.json arrives, or the catch swallows what the try block threw.
LegacyPollSourcesReply(i, D) ==
  /\ server = LegacyVersion
  /\ inv[i].pc = "sources"
  /\ inv[i].tool = "diffdelta_poll"
  /\ \E reply \in NetworkReplies(D.sourceLists) :
       lastEv' = LegacyPollReturn(inv[i], inv[i].feed, TagMapOf(reply), FetchError(reply))
  /\ inv' = [inv EXCEPT ![i] = IdleInv]
  /\ UNCHANGED cursors
  /\ UNCHANGED server

LegacyStartPollSource(i, D) ==
  /\ server = LegacyVersion
  /\ inv[i].pc = "idle"
  /\ \E source_id \in D.sourceIds, a \in D.pollSourceArgs :
       inv' = [inv EXCEPT ![i] =
                 Started("diffdelta_poll_source", source_id,
                         [NoArgs EXCEPT !.include_removed = a.include_removed],
                         LegacyPollSourceHeadUrl(source_id))]
  /\ UNCHANGED <<cursors, lastEv>>
  /\ UNCHANGED server

LegacyPollSourceHeadReply(i, D) ==
  /\ server = LegacyVersion
  /\ inv[i].pc = "head"
  /\ inv[i].tool = "diffdelta_poll_source"
  /\ \E reply \in NetworkReplies(D.heads) :
       LET source_id == inv[i].source_id
       IN IF FetchError(reply) # "none"
          THEN FailStep(i, PollSourceKey(source_id), "head", FetchError(reply), Undefined)
          ELSE HeadStep(i, PollSourceKey(source_id), reply.data,
                        NoChangesInSourceText(source_id),
                        LegacyPollSourceLatestUrl(source_id))
  /\ UNCHANGED server

LegacyPollSourceFeedReply(i, D) ==
  /\ server = LegacyVersion
  /\ inv[i].pc = "feed"
  /\ inv[i].tool = "diffdelta_poll_source"
  /\ \E reply \in NetworkReplies(D.docs) :
       LET v == inv[i]
           cursorKey == PollSourceKey(v.source_id)
       IN IF FetchError(reply) # "none"
          THEN FailStep(i, cursorKey, "feed", FetchError(reply), v.newCursor)
          ELSE LET feed == reply.data
                   pairs == LegacyAllItems(feed, LegacyBucketList(v.args.include_removed))
               IN /\ cursors' = SaveCursor(cursors, cursorKey, feed, v.newCursor)
                  /\ lastEv' = IF RenderThrows(feed, LegacyBucketList(v.args.include_removed))
                               THEN ThrewListing(v, cursorKey, feed, "none")
                               ELSE [Ev(v, cursorKey, "feed", "none") EXCEPT
                                       !.feedCursor = feed.cursor,
                                       !.fetched = TRUE,
                                       !.feed = feed,
                                       !.items = pairs,
                                       !.text = WithNarrative(feed,
                                                  LegacyResult(feed, v.args, NoTagMap))]
                  /\ inv' = [inv EXCEPT ![i] = IdleInv]
  /\ UNCHANGED server

LegacyStart(i, D) ==
  \/ LegacyStartCheckHead(i, D)
  \/ LegacyStartPoll(i, D)
  \/ LegacyStartPollSource(i, D)

LegacyContinue(i, D) ==
  \/ LegacyCheckHeadReply(i, D)
  \/ LegacyPollHeadReply(i, D)
  \/ LegacyPollFeedReply(i, D)
  \/ LegacyPollSourcesReply(i, D)
  \/ LegacyPollSourceHeadReply(i, D)
  \/ LegacyPollSourceFeedReply(i, D)

(***************************************************************************)
(* The tools of one fetch: diffdelta_list_sources, and in the current      *)
(* server diffdelta_discover_stack and diffdelta_check_health.  Each       *)
(* awaits one document and renders it; none touches the cursor store.      *)
(***************************************************************************)
LookupUrl(tool) ==
  IF tool = "diffdelta_list_sources" THEN BASE_URL \o "/diff/sources.json"
  ELSE IF tool = "diffdelta_discover_stack" THEN BASE_URL \o "/diff/stacks.json"
  ELSE BASE_URL \o "/healthz.json"

\* The one-fetch tools the running server registers.
LookupTools ==
  IF server = VERSION
  THEN {"diffdelta_list_sources", "diffdelta_discover_stack", "diffdelta_check_health"}
  ELSE {"diffdelta_list_sources"}

StartLookup(i) ==
  /\ inv[i].pc = "idle"
  /\ \E tool \in LookupTools :
       inv' = [inv EXCEPT ![i] =
                 [Started(tool, Undefined, NoArgs, LookupUrl(tool)) EXCEPT !.pc = "lookup"]]
  /\ UNCHANGED <<cursors, lastEv, server>>

\* The document arrives and is rendered, or fetchJson throws; rendering
\* throws too when diffdelta_list_sources reads `data.sources.map` of a body
\* without `sources`.
LookupReply(i, D) ==
  /\ inv[i].pc = "lookup"
  /\ \E reply \in NetworkReplies(D.sourceLists) :
       LET thrown == IF FetchError(reply) # "none" THEN FetchError(reply)
                     ELSE IF inv[i].tool = "diffdelta_list_sources"
                             /\ ~reply.data.sources.present
                          THEN "TypeError"
                          ELSE "none"
       IN lastEv' = IF thrown = "none"
                    THEN Ev(inv[i], "", "lookup", "none")
                    ELSE Failed(inv[i], "", "lookup", thrown)
  /\ inv' = [inv EXCEPT ![i] = IdleInv]
  /\ UNCHANGED <<cursors, server>>

(***************************************************************************)
(* The resources: diffdelta://sources, diffdelta://head,                   *)
(* diffdelta://feed/global and diffdelta://feed/{source_id}.  Each read    *)
(* awaits one document and returns it as JSON text.                        *)
(***************************************************************************)
StaticResources == {"diffdelta://sources", "diffdelta://head", "diffdelta://feed/global"}

SourceFeedResource == "diffdelta://feed/{source_id}"

\* The URL a resource read fetches.
ResourceUrl(resource, source_id) ==
  IF resource = "diffdelta://sources" THEN BASE_URL \o "/diff/sources.json"
  ELSE IF resource = "diffdelta://head" THEN BASE_URL \o "/diff/head.json"
  ELSE IF resource = "diffdelta://feed/global" THEN BASE_URL \o "/diff/latest.json"
  ELSE IF server = VERSION THEN BASE_URL \o "/diff/" \o source_id \o "/latest.json"
  ELSE BASE_URL \o "/diff/source/" \o source_id \o "/latest.json"

\* The documents the remote service serves for a resource.
ResourceBodies(resource, D) ==
  IF resource = "diffdelta://sources" THEN D.sourceLists
  ELSE IF resource = "diffdelta://head" THEN D.heads
  ELSE D.docs

\* A slip: a feed resource saves the cursor of the document it returns.
StoreOnReadSaves(store, resource, source_id, data) ==
  IF resource = "diffdelta://feed/global" /\ Truthy(data.cursor)
  THEN Set(store, "global", data.cursor)
  ELSE IF resource = SourceFeedResource /\ Truthy(data.cursor)
  THEN Set(store, "source:" \o source_id, data.cursor)
  ELSE store

\* The store after a resource read: the callbacks do not mention `cursors`.
StoreOnRead(store, resource, source_id, data) == store

\* A read of a resource arrives in a free slot.
StartRead(i, D) ==
  /\ inv[i].pc = "idle"
  /\ \/ \E resource \in StaticResources :
          inv' = [inv EXCEPT ![i] =
                    [Started(resource, Undefined, NoArgs, ResourceUrl(resource, Undefined))
                       EXCEPT !.pc = "read"]]
     \/ \E source_id \in D.sourceIds :
          inv' = [inv EXCEPT ![i] =
                    [Started(SourceFeedResource, source_id, NoArgs,
                             ResourceUrl(SourceFeedResource, source_id))
                       EXCEPT !.pc = "read"]]
  /\ UNCHANGED <<cursors, lastEv, server>>

\* The document arrives and is returned as it is, or fetchJson throws.
ReadReply(i, D) ==
  /\ inv[i].pc = "read"
  /\ \E reply \in NetworkReplies(ResourceBodies(inv[i].tool, D)) :
       IF FetchError(reply) # "none"
       THEN /\ lastEv' = Failed(inv[i], "", "read", FetchError(reply))
            /\ UNCHANGED cursors
       ELSE /\ lastEv' = IF ResourceBodies(inv[i].tool, D) = D.docs
                         THEN [Ev(inv[i], "", "read", "none") EXCEPT !.feed = reply.data]
                         ELSE Ev(inv[i], "", "read", "none")
            /\ cursors' = StoreOnRead(cursors, inv[i].tool, inv[i].source_id, reply.data)
  /\ inv' = [inv EXCEPT ![i] = IdleInv]
  /\ UNCHANGED server

(***************************************************************************)
(* The server.                                                             *)
(***************************************************************************)
\* A tool call arrives in a free slot.
Start(i, D) ==
  \/ StartCheckHead(i, D)
  \/ StartPoll(i, D)
  \/ StartPollSource(i, D)

\* The response to the outstanding request of an invocation arrives and the
\* handler runs to its next await or to its return.
Continue(i, D) ==
  \/ CheckHeadReply(i, D)
  \/ PollHeadReply(i, D)
  \/ PollFeedReply(i, D)
  \/ PollSourcesReply(i, D)
  \/ PollSourceHeadReply(i, D)
  \/ PollSourceFeedReply(i, D)

\* Overlapping invocations: any continuation of any invocation may run next.
Next == \E i \in Slots : Start(i, Concurrent) \/ Continue(i, Concurrent)

Spec == Init /\ [][Next]_vars

\* One invocation at a time: a call arrives when the previous one has returned.
NextSeq == (Quiet(1) /\ Start(1, Sequential)) \/ Continue(1, Sequential)

SpecSeq == Init /\ [][NextSeq]_vars

\* One invocation at a time, over documents and filters of many shapes.
NextFilter == (Quiet(1) /\ Start(1, Filtering)) \/ Continue(1, Filtering)

SpecFilter == Init /\ [][NextFilter]_vars

\* The legacy server, one invocation at a time, over the same documents and
\* filters.
NextLegacy == (Quiet(1) /\ LegacyStart(1, Filtering)) \/ LegacyContinue(1, Filtering)

SpecLegacy == LegacyInit /\ [][NextLegacy]_vars

\* Either server, one invocation at a time, over the same documents and
\* filters.
NextVersions == NextFilter \/ NextLegacy

SpecVersions == AnyInit /\ [][NextVersions]_vars

\* Either server, one invocation at a time, over items of every shape.
NextRender ==
  \/ Quiet(1) /\ (Start(1, Rendering) \/ LegacyStart(1, Rendering))
  \/ Continue(1, Rendering)
  \/ LegacyContinue(1, Rendering)

SpecRender == AnyInit /\ [][NextRender]_vars

\* The documents and arguments of the termination runs.  The documents list
\* no item: the listing is a loop over a finite array and has no bearing on
\* whether a continuation ends.
Terminating ==
  [checkIds |-> {Undefined},
   sourceIds |-> {"a"},
   heads |-> HeadBodies({"c1", "c2"}, {NoCounts}, {FALSE}),
   docs |-> DocBodies({"c1"}, {EmptyBuckets}, {Undefined}),
   sourceLists |-> {SourcesAB, SourcesMissing},
   pollArgs |-> [tags : {NoArray, Arr(<<"security">>)}, sources : {NoArray},
                 include_removed : {FALSE}],
   pollSourceArgs |-> [include_removed : {FALSE}]]

\* The continuation of the invocation in slot i, in whichever server runs.
Resume(i) ==
  \/ Continue(i, Terminating)
  \/ LegacyContinue(i, Terminating)
  \/ LookupReply(i, Terminating)

\* Either server: an invocation of any tool in slot 1, overlapped by
\* invocations of the one-fetch tools in slot 2.
NextLive ==
  \/ Start(1, Terminating)
  \/ LegacyStart(1, Terminating)
  \/ \E i \in Slots : StartLookup(i)
  \/ \E i \in Slots : Resume(i)

\* Each network call ends: fetch resolves or rejects, or the abort timer
\* fires after TIMEOUT, so the continuation of an awaiting invocation runs.
NetworkCallsEnd == \A i \in Slots : WF_vars(Resume(i))

SpecLive == AnyInit /\ [][NextLive]_vars /\ NetworkCallsEnd

(***************************************************************************)
(* Vocabulary of the properties.                                           *)
(***************************************************************************)
\* In this step a continuation of the invocation in slot i ran: lastEv' is
\* its record, inv[i] the invocation as it was suspended.
Ran(i) == inv[i].pc # "idle" /\ inv'[i] # inv[i]

\* In this step the tool call in slot i arrived.
Arrived(i) == inv[i].pc = "idle" /\ inv'[i] # inv[i]

IsPoll(tool) == tool \in {"diffdelta_poll", "diffdelta_poll_source"}

\* The state of a feed key in a store: Unknown, or Known(c).
Known(store, key) == key \in DOMAIN store

\* The head cursor h is not the cursor stored for the key.
Differs(store, key, h) == ~Known(store, key) \/ store[key] # h

\* The URLs of the full feed.
IsLatestUrl(url) ==
  url = PollLatestUrl \/ \E s \in Sequential.sourceIds : url = PollSourceLatestUrl(s)

\* The "no changes" texts of the short-circuit path.
NoChangesTexts ==
  {NoChangesText(h) : h \in Sequential.heads}
    \cup {NoChangesInSourceText(s) : s \in Sequential.sourceIds}

\* The items of one bucket of a document, each with the bucket and in the
\* document's order, whose source id ("" when absent) is in the source
\* allow-list when a non-empty one is given.
AllowedOf(feed, bucket, sources) ==
  LET listed == IF bucket \in DOMAIN feed.buckets THEN feed.buckets[bucket] ELSE <<>>
      Allowed(item) ==
        \/ ~HasLength(sources)
        \/ Includes(sources.v, IF item.source = Undefined THEN "" ELSE item.source)
      kept == SelectSeq(listed, Allowed)
  IN [n \in 1..Len(kept) |-> [item |-> kept[n], bucket |-> bucket]]

\* What a poll without a tag filter returns: the allowed items of flagged,
\* new and updated, and of removed when include_removed is set.
WithoutTagFilter(feed, args) ==
  AllowedOf(feed, "flagged", args.sources) \o AllowedOf(feed, "new", args.sources)
    \o AllowedOf(feed, "updated", args.sources)
    \o (IF args.include_removed THEN AllowedOf(feed, "removed", args.sources) ELSE <<>>)

(***************************************************************************)
(* C1.  An invocation of diffdelta_check_head, from its arrival to its     *)
(* return or failure, leaves the cursor store as it is: the same keys with *)
(* the same cursors, whatever source_id it was given and whatever the      *)
(* head.json fetch brought.                                                *)
(***************************************************************************)
C1_CheckHeadLeavesStore ==
  [][\A i \in Slots :
       /\ inv'[i] # inv[i]
       /\ "diffdelta_check_head" \in {inv[i].tool, inv'[i].tool}
       => cursors' = cursors]_vars

\* A head check has returned changed = true for a key that is Known: the
\* snapshot's cursor is not the stored one, and the stored one is still there.
C1_Witness ==
  /\ lastEv.tool = "diffdelta_check_head"
  /\ lastEv.status = "returned"
  /\ Known(cursors, lastEv.key)
  /\ Truthy(lastEv.out.cursor)
  /\ cursors[lastEv.key] # lastEv.out.cursor

(***************************************************************************)
(* C2.  diffdelta_check_head returns changed = true exactly when the store *)
(* has no cursor for the feed key or has one that is not the snapshot's    *)
(* cursor, whatever the snapshot's counts and other fields are.            *)
(***************************************************************************)
C2_ChangedIffUnknownOrDiffers ==
  [][\A i \in Slots :
       /\ Ran(i)
       /\ inv[i].tool = "diffdelta_check_head"
       /\ lastEv'.status = "returned"
       => /\ lastEv'.key = (IF inv[i].source_id \in {Undefined, ""} THEN "global"
                            ELSE "source:" \o inv[i].source_id)
          /\ lastEv'.out.changed_since_last_check
               = Differs(cursors, lastEv'.key, lastEv'.out.cursor)]_vars

\* A head check has returned changed = false although the snapshot counts a
\* flagged item.
C2_Witness ==
  /\ lastEv.tool = "diffdelta_check_head"
  /\ lastEv.status = "returned"
  /\ ~lastEv.out.changed_since_last_check
  /\ lastEv.out.counts["flagged"] > 0

(***************************************************************************)
(* C3.  A poll (diffdelta_poll, diffdelta_poll_source) requests the full   *)
(* feed only from the comparison of the head snapshot it has just received *)
(* with the store, and only if the key is Unknown or its cursor is not the *)
(* snapshot's; when they are equal it returns a "no changes" text, has     *)
(* requested nothing but head.json, and leaves the store as it is.         *)
(***************************************************************************)
C3_FullFetchOnlyWhenChanged ==
  [][\A i \in Slots :
       /\ (/\ Len(inv'[i].reqs) > Len(inv[i].reqs)
           /\ IsLatestUrl(inv'[i].reqs[Len(inv'[i].reqs)])
           => /\ Ran(i) /\ inv[i].pc = "head" /\ IsPoll(inv[i].tool)
              /\ lastEv'.error = "none"
              /\ Differs(cursors, lastEv'.key, lastEv'.newCursor))
       /\ (/\ Ran(i) /\ inv[i].pc = "head" /\ IsPoll(inv[i].tool)
           /\ lastEv'.error = "none"
           /\ ~Differs(cursors, lastEv'.key, lastEv'.newCursor)
           => /\ lastEv'.status = "returned"
              /\ lastEv'.text \in NoChangesTexts
              /\ ~lastEv'.fetched
              /\ inv'[i].pc = "idle"
              /\ Len(lastEv'.reqs) = 1
              /\ ~IsLatestUrl(lastEv'.reqs[1])
              /\ lastEv'.reqs[1] # PollSourcesUrl
              /\ cursors' = cursors)]_vars

\* A poll has returned "no changes" from the head snapshot alone.
C3_Witness ==
  /\ IsPoll(lastEv.tool)
  /\ lastEv.step = "head"
  /\ lastEv.status = "returned"
  /\ lastEv.text \in NoChangesTexts
  /\ Known(cursors, lastEv.key)
  /\ cursors[lastEv.key] = lastEv.newCursor

(***************************************************************************)
(* C4.  When the full-feed fetch of a poll succeeds and the document       *)
(* carries a non-empty cursor c, the store holds Known(c) for the poll's   *)
(* key after that step: the document's cursor, not the head snapshot's.    *)
(***************************************************************************)
C4_StoresDocumentCursor ==
  [][\A i \in Slots :
       /\ Ran(i)
       /\ inv[i].pc = "feed"
       /\ IsPoll(inv[i].tool)
       /\ lastEv'.error = "none"
       /\ Truthy(lastEv'.feedCursor)
       => /\ lastEv'.key = (IF inv[i].tool = "diffdelta_poll" THEN "global"
                            ELSE "source:" \o inv[i].source_id)
          /\ Known(cursors', lastEv'.key)
          /\ cursors'[lastEv'.key] = lastEv'.feedCursor]_vars

\* A poll has stored the cursor of a document that differs from the cursor of
\* the head snapshot the same poll had received.
C4_Witness ==
  /\ IsPoll(lastEv.tool)
  /\ lastEv.step = "feed"
  /\ lastEv.fetched
  /\ Truthy(lastEv.feedCursor)
  /\ Truthy(lastEv.newCursor)
  /\ lastEv.newCursor # lastEv.feedCursor
  /\ Known(cursors, lastEv.key)
  /\ cursors[lastEv.key] = lastEv.feedCursor

(***************************************************************************)
(* C5.  When the document a poll fetched has an absent or an empty cursor, *)
(* the poll leaves the store as it was (Unknown stays Unknown, Known(c)    *)
(* stays Known(c)) and still returns the document's items.                 *)
(***************************************************************************)
C5_EmptyCursorLeavesStore ==
  [][\A i \in Slots :
       /\ Ran(i)
       /\ IsPoll(inv[i].tool)
       /\ lastEv'.fetched
       /\ lastEv'.feedCursor \in {Undefined, ""}
       => /\ cursors' = cursors
          /\ ~inv[i].wrote
          /\ lastEv'.status = "returned"
               => /\ Len(lastEv'.items) > 0
                  /\ lastEv'.text \notin NoChangesTexts]_vars

\* A poll of a Known key has returned the items of a document without a cursor.
C5_Witness ==
  /\ IsPoll(lastEv.tool)
  /\ lastEv.fetched
  /\ lastEv.status = "returned"
  /\ lastEv.feedCursor = Undefined
  /\ Len(lastEv.items) > 0
  /\ Known(cursors, lastEv.key)

(***************************************************************************)
(* C6.  When the head.json fetch of a head check or of a poll, or the      *)
(* latest.json fetch of a poll, fails (network error, timeout, non-2xx     *)
(* status, unparseable body), the invocation ends there as a failure that  *)
(* carries the error, and the invocation has not changed the store.        *)
(***************************************************************************)
C6_FetchFailureFailsInvocation ==
  [][\A i \in Slots :
       /\ Ran(i)
       /\ inv[i].pc \in {"head", "feed"}
       /\ lastEv'.error # "none"
       => /\ lastEv'.error \in FetchErrors
          /\ lastEv'.status = "failed"
          /\ inv'[i].pc = "idle"
          /\ lastEv'.reqs = inv[i].reqs
          /\ ~inv[i].wrote
          /\ cursors' = cursors]_vars

\* The latest.json fetch of a poll has failed on an unparseable body after a
\* head snapshot with a cursor the store does not hold.
C6_Witness ==
  /\ IsPoll(lastEv.tool)
  /\ lastEv.step = "feed"
  /\ lastEv.status = "failed"
  /\ lastEv.error = "ParseError"
  /\ Truthy(lastEv.newCursor)
  /\ Differs(cursors, lastEv.key, lastEv.newCursor)

(***************************************************************************)
(* C7.  Confirm-then-settle.  As claimed: after a poll has returned from a *)
(* successful full fetch with cursor C, the next head check of the same    *)
(* feed (the global one, or the source id s given to both tools), nothing  *)
(* else having run in between and the head reporting C, returns            *)
(* changed = false.                                                        *)
(***************************************************************************)
\* The head check of source_id `check` addresses the feed of the poll that
\* the record `ev` is of.
SameFeed(ev, check) ==
  \/ ev.tool = "diffdelta_poll" /\ check = Undefined
  \/ ev.tool = "diffdelta_poll_source" /\ check = ev.source_id

\* The step is the return of a head check that follows the return of a poll
\* with a full fetch, nothing else in flight.
CheckRightAfterFetch(i) ==
  /\ Ran(i)
  /\ Quiet(i)
  /\ inv[i].tool = "diffdelta_check_head"
  /\ lastEv'.status = "returned"
  /\ IsPoll(lastEv.tool)
  /\ lastEv.status = "returned"
  /\ lastEv.fetched
  /\ lastEv'.out.cursor = lastEv.feedCursor

C7_SettlesForAnyCursorAndSource ==
  [][\A i \in Slots :
       CheckRightAfterFetch(i) /\ SameFeed(lastEv, inv[i].source_id)
       => ~lastEv'.out.changed_since_last_check]_vars

(***************************************************************************)
(* C7, amended.  The same for a non-empty cursor C and a non-empty source  *)
(* id s: the head check then reads the key the poll wrote, and returns     *)
(* changed = false.                                                        *)
(***************************************************************************)
C7_SettlesForNonEmpty ==
  [][\A i \in Slots :
       /\ CheckRightAfterFetch(i)
       /\ SameFeed(lastEv, inv[i].source_id)
       /\ Truthy(lastEv.feedCursor)
       /\ (lastEv.tool = "diffdelta_poll_source" => Truthy(lastEv.source_id))
       => /\ lastEv'.key = lastEv.key
          /\ lastEv'.after = "fetch"
          /\ ~lastEv'.out.changed_since_last_check]_vars

\* A head check of source "a" right after a poll of source "a" that fetched
\* the cursor the head reports has returned changed = false.
C7_Witness ==
  /\ lastEv.tool = "diffdelta_check_head"
  /\ lastEv.status = "returned"
  /\ lastEv.after = "fetch"
  /\ lastEv.key = "source:a"
  /\ Truthy(lastEv.out.cursor)
  /\ ~lastEv.out.changed_since_last_check

(***************************************************************************)
(* C8.  Idempotent head checks: a head check of an Unknown key returns     *)
(* changed = true, and a head check that follows a head check of the same  *)
(* key with the same head cursor returns the same changed value.           *)
(***************************************************************************)
C8_HeadChecksRepeat ==
  [][\A i \in Slots :
       /\ Ran(i)
       /\ inv[i].tool = "diffdelta_check_head"
       /\ lastEv'.status = "returned"
       => /\ ~Known(cursors, lastEv'.key) => lastEv'.out.changed_since_last_check
          /\ (/\ Quiet(i)
              /\ lastEv.tool = "diffdelta_check_head"
              /\ lastEv.status = "returned"
              /\ lastEv.key = lastEv'.key
              /\ lastEv.out.cursor = lastEv'.out.cursor)
             => /\ lastEv'.after = "check"
                /\ lastEv'.out.changed_since_last_check
                     = lastEv.out.changed_since_last_check]_vars

\* The second of two head checks in a row of an Unknown key has returned
\* changed = true for a non-empty head cursor.
C8_Witness ==
  /\ lastEv.tool = "diffdelta_check_head"
  /\ lastEv.status = "returned"
  /\ lastEv.after = "check"
  /\ ~Known(cursors, lastEv.key)
  /\ Truthy(lastEv.out.cursor)
  /\ lastEv.out.changed_since_last_check

(***************************************************************************)
(* C9.  No change is lost to probing: whenever the head cursor a head      *)
(* check or a poll receives is not the cursor stored for its key, the head *)
(* check returns changed = true and the poll requests the full feed; this  *)
(* also right after a head check that has reported that same change.       *)
(***************************************************************************)
\* The previous continuation was a head check of `key` that returned
\* changed = true for the head cursor h.
ProbedChange(key, h) ==
  /\ lastEv.tool = "diffdelta_check_head"
  /\ lastEv.status = "returned"
  /\ lastEv.key = key
  /\ lastEv.out.cursor = h
  /\ lastEv.out.changed_since_last_check

C9_NoChangeLostToProbing ==
  [][\A i \in Slots :
       /\ Ran(i)
       /\ inv[i].pc = "head"
       /\ lastEv'.error = "none"
       /\ \/ Differs(cursors, lastEv'.key, lastEv'.newCursor)
          \/ Quiet(i) /\ ProbedChange(lastEv'.key, lastEv'.newCursor)
       => IF inv[i].tool = "diffdelta_check_head"
          THEN lastEv'.out.changed_since_last_check
          ELSE /\ lastEv'.status = "awaiting"
               /\ inv'[i].pc = "feed"
               /\ IsLatestUrl(inv'[i].reqs[Len(inv'[i].reqs)])]_vars

\* A poll of a Known key has requested the full feed right after a head check
\* that had reported the same head cursor as a change.
C9_Witness ==
  /\ IsPoll(lastEv.tool)
  /\ lastEv.step = "head"
  /\ lastEv.status = "awaiting"
  /\ lastEv.after = "check"
  /\ Known(cursors, lastEv.key)
  /\ Truthy(lastEv.newCursor)

(***************************************************************************)
(* C10.  Graceful tag-filter degradation: when diffdelta_poll is given a   *)
(* non-empty tags filter and the sources.json fetch fails, the invocation  *)
(* returns, and returns the items and the text of the same poll without    *)
(* the tags filter (bucket inclusion and source filter applied).           *)
(***************************************************************************)
C10_TagFilterDegrades ==
  [][\A i \in Slots :
       /\ Ran(i)
       /\ inv[i].pc = "sources"
       /\ lastEv'.error # "none"
       => /\ HasLength(inv[i].args.tags)
          /\ lastEv'.status = "returned"
          /\ inv'[i].pc = "idle"
          /\ lastEv'.items = WithoutTagFilter(inv[i].feed, inv[i].args)
          /\ lastEv'.text = PollText(inv[i].feed, WithoutTagFilter(inv[i].feed, inv[i].args))]_vars

\* A tag-filtered poll whose sources.json fetch timed out has returned, among
\* others, an item without a source id, which no tag filter lets through.
C10_Witness ==
  /\ lastEv.tool = "diffdelta_poll"
  /\ lastEv.step = "sources"
  /\ lastEv.error = "TimeoutError"
  /\ lastEv.status = "returned"
  /\ \E n \in 1..Len(lastEv.items) : lastEv.items[n].item = ItemNoSource
  /\ \E n \in 1..Len(lastEv.items) : lastEv.items[n].item = ItemB

(***************************************************************************)
(* Vocabulary of the filter properties.                                    *)
(***************************************************************************)
\* The record is of a diffdelta_poll that returned after a full fetch.
PollFetched(ev) ==
  ev.tool = "diffdelta_poll" /\ ev.status = "returned" /\ ev.fetched

\* The (item, bucket) pairs a document lists, and those a poll returned.
Listed(feed) ==
  UNION {{[item |-> feed.buckets[b][n], bucket |-> b] : n \in 1..Len(feed.buckets[b])} :
           b \in DOMAIN feed.buckets}

Returned(ev) == {ev.items[m] : m \in 1..Len(ev.items)}

\* The buckets a poll includes, as the claims have them, and as the legacy
\* server has them.
Included(include_removed) ==
  {"flagged", "new", "updated"} \cup (IF include_removed THEN {"removed"} ELSE {})

LegacyIncluded(include_removed) ==
  {"new", "updated"} \cup (IF include_removed THEN {"removed"} ELSE {})

\* The item's source id (the empty id when it has none) is in the allow-list.
InAllowList(item, sources) ==
  \E n \in 1..Len(sources.v) :
     sources.v[n] = (IF item.source = Undefined THEN "" ELSE item.source)

\* The tags the lookup gives for the item's source id share a tag with the
\* requested ones; a source id absent from the lookup has no tags.
SharesTag(item, tags, lookup) ==
  LET id == IF item.source = Undefined THEN "" ELSE item.source
  IN /\ id \in DOMAIN lookup
     /\ \E n \in 1..Len(tags.v), m \in 1..Len(lookup[id]) : tags.v[n] = lookup[id][m]

\* The lookups the service serves.
ServedLookups ==
  {MakeTagMap(b).map : b \in {x \in Filtering.sourceLists : x.sources.present}}

(***************************************************************************)
(* C11.  Filter composition, as claimed: a diffdelta_poll given a source   *)
(* allow-list and a tag allow-list, no fetch having failed, returns an     *)
(* item if and only if it lies in an included bucket, its source is in the *)
(* source allow-list and its source has a requested tag; with no such item *)
(* the result is empty.  Stated of either server.                          *)
(***************************************************************************)
C11_BothFilters(ev) ==
  /\ PollFetched(ev)
  /\ ev.error = "none"
  /\ HasLength(ev.args.sources)
  /\ HasLength(ev.args.tags)

C11_ComposeInEveryServer ==
  C11_BothFilters(lastEv) /\ (lastEv.step = "sources" => lastEv.tagMap.present)
  => \E lookup \in ServedLookups :
        Returned(lastEv) =
          {p \in Listed(lastEv.feed) :
             /\ p.bucket \in (IF server = VERSION
                              THEN Included(lastEv.args.include_removed)
                              ELSE LegacyIncluded(lastEv.args.include_removed))
             /\ InAllowList(p.item, lastEv.args.sources)
             /\ SharesTag(p.item, lastEv.args.tags, lookup)}

(***************************************************************************)
(* C11, amended.  In the current server the filters compose by AND, with   *)
(* the tags of the lookup the poll made.  The legacy server, given a       *)
(* source allow-list, makes no lookup and returns every item of an         *)
(* included bucket whose source is in the allow-list, whatever its tags.   *)
(***************************************************************************)
C11_ComposeByVersion ==
  C11_BothFilters(lastEv)
  => IF server = VERSION
     THEN /\ lastEv.step = "sources"
          /\ lastEv.tagMap.present
             => Returned(lastEv) =
                  {p \in Listed(lastEv.feed) :
                     /\ p.bucket \in Included(lastEv.args.include_removed)
                     /\ InAllowList(p.item, lastEv.args.sources)
                     /\ SharesTag(p.item, lastEv.args.tags, lastEv.tagMap.map)}
     ELSE /\ lastEv.step = "feed"
          /\ PollSourcesUrl \notin {lastEv.reqs[n] : n \in 1..Len(lastEv.reqs)}
          /\ Returned(lastEv) =
               {p \in Listed(lastEv.feed) :
                  /\ p.bucket \in LegacyIncluded(lastEv.args.include_removed)
                  /\ InAllowList(p.item, lastEv.args.sources)}

\* The current server has returned nothing from a document in which one
\* item passes the source filter alone and another the tag filter alone.
C11_Witness ==
  /\ server = VERSION
  /\ C11_BothFilters(lastEv)
  /\ lastEv.tagMap.present
  /\ lastEv.items = <<>>
  /\ \E p \in Listed(lastEv.feed) :
        /\ p.bucket \in Included(lastEv.args.include_removed)
        /\ InAllowList(p.item, lastEv.args.sources)
  /\ \E p \in Listed(lastEv.feed) :
        /\ p.bucket \in Included(lastEv.args.include_removed)
        /\ SharesTag(p.item, lastEv.args.tags, lastEv.tagMap.map)

(***************************************************************************)
(* Vocabulary of the order properties.                                     *)
(***************************************************************************)
\* The record is of a poll, of either tool, that returned after a full fetch.
AnyPollFetched(ev) == IsPoll(ev.tool) /\ ev.status = "returned" /\ ev.fetched

\* The place of a bucket in the fixed order flagged, new, updated, removed.
Rank(bucket) ==
  CASE bucket = "flagged" -> 1
    [] bucket = "new" -> 2
    [] bucket = "updated" -> 3
    [] bucket = "removed" -> 4

\* s can be had from t by leaving elements out.
RECURSIVE IsSubSeq(_, _)
IsSubSeq(s, t) ==
  IF Len(s) = 0 THEN TRUE
  ELSE IF Len(t) = 0 THEN FALSE
  ELSE IF s[1] = t[1] THEN IsSubSeq(Tail(s), Tail(t))
  ELSE IsSubSeq(s, Tail(t))

\* The items a poll returned with the given bucket, in the order returned.
ReturnedOf(ev, bucket) ==
  LET OfBucket(p) == p.bucket = bucket
      ps == SelectSeq(ev.items, OfBucket)
  IN [n \in 1..Len(ps) |-> ps[n].item]

\* The poll was given no source or tag filter.
Unfiltered(ev) == ~HasLength(ev.args.sources) /\ ~HasLength(ev.args.tags)

\* Buckets earlier in the fixed order come first in the output, and the
\* items of one bucket are in the document's order.
InFixedOrder(ev) ==
  /\ \A m1, m2 \in 1..Len(ev.items) :
        m1 < m2 => Rank(ev.items[m1].bucket) <= Rank(ev.items[m2].bucket)
  /\ \A b \in BucketNames :
        IsSubSeq(ReturnedOf(ev, b),
                 IF b \in DOMAIN ev.feed.buckets THEN ev.feed.buckets[b] ELSE <<>>)

\* The items returned are items of the given buckets, all of them when the
\* poll is not filtered.
FromBuckets(ev, buckets) ==
  /\ Returned(ev) \subseteq {p \in Listed(ev.feed) : p.bucket \in buckets}
  /\ Unfiltered(ev) => Returned(ev) = {p \in Listed(ev.feed) : p.bucket \in buckets}

(***************************************************************************)
(* C12.  Output order and bucket inclusion, as claimed: the items a poll   *)
(* returns are those of flagged, new and updated, and of removed only when *)
(* include_removed is set, the buckets in the order flagged, new, updated, *)
(* removed and the items of a bucket in the document's order.  Stated of   *)
(* either server.                                                          *)
(***************************************************************************)
C12_FlaggedFirstInEveryServer ==
  AnyPollFetched(lastEv)
  => /\ FromBuckets(lastEv, Included(lastEv.args.include_removed))
     /\ InFixedOrder(lastEv)

(***************************************************************************)
(* C12, amended.  So it is in the current server.  The legacy server       *)
(* includes new and updated, and removed when include_removed is set, in   *)
(* that order, and never returns an item of flagged.                       *)
(***************************************************************************)
C12_OrderByVersion ==
  AnyPollFetched(lastEv)
  => /\ FromBuckets(lastEv, IF server = VERSION
                            THEN Included(lastEv.args.include_removed)
                            ELSE LegacyIncluded(lastEv.args.include_removed))
     /\ InFixedOrder(lastEv)

\* The current server has returned, from a document with items in all four
\* buckets, the items of flagged, new and updated and none of removed.
C12_Witness ==
  /\ server = VERSION
  /\ AnyPollFetched(lastEv)
  /\ Unfiltered(lastEv)
  /\ ~lastEv.args.include_removed
  /\ lastEv.feed.buckets = AllBuckets
  /\ Len(lastEv.items) = 5
  /\ lastEv.items[1].bucket = "flagged"
  /\ lastEv.items[5].bucket = "updated"

(***************************************************************************)
(* Vocabulary of the message properties.                                   *)
(***************************************************************************)
\* "Summary: <narrative>" and a blank line, when the document has a
\* non-empty narrative.
SummaryBlock(feed) ==
  IF feed.batch_narrative \notin {Undefined, ""}
  THEN "Summary: " \o feed.batch_narrative \o "\n\n"
  ELSE ""

\* The document lists an item in a bucket the server includes.
HoldsItems(ev) ==
  \E p \in Listed(ev.feed) :
     p.bucket \in (IF server = VERSION THEN Included(ev.args.include_removed)
                   ELSE LegacyIncluded(ev.args.include_removed))

\* The same document with every bucket empty.
Emptied(feed) == [feed EXCEPT !.buckets = EmptyBuckets]

\* The text the server's diffdelta_poll produces for the arguments and the
\* lookup of the record when every bucket of the document is empty.
TextWhenEmpty(ev) ==
  IF server = VERSION THEN PollText(Emptied(ev.feed), <<>>)
  ELSE WithNarrative(ev.feed, LegacyResult(Emptied(ev.feed), ev.args, ev.tagMap))

\* The listing of a poll that returned no item, by server and filter.
NoItemsListing(ev) ==
  IF ev.tool = "diffdelta_poll_source" THEN "No items found."
  ELSE IF server = VERSION THEN "No matching items found."
  ELSE IF HasLength(ev.args.sources)
       THEN "No items from sources [" \o Join(ev.args.sources.v, ", ") \o "]."
       ELSE IF HasLength(ev.args.tags) /\ ev.tagMap.present
            THEN "No items matching tags [" \o Join(ev.args.tags.v, ", ") \o "]."
            ELSE "No items found."

(***************************************************************************)
(* C13.  Empty versus filtered-to-empty, as claimed: when the document     *)
(* holds items and the filters of diffdelta_poll remove them all, the      *)
(* message is not the one the poll produces for a document whose buckets   *)
(* are all empty.                                                          *)
(***************************************************************************)
C13_EmptyToldFromFiltered ==
  PollFetched(lastEv) /\ lastEv.items = <<>> /\ HoldsItems(lastEv)
  => lastEv.text # TextWhenEmpty(lastEv)

(***************************************************************************)
(* C13, amended.  A poll that returns no item produces one message,        *)
(* whether the buckets are empty or the filters removed every item: the    *)
(* summary block, if any, and a listing fixed by the tool, the server and  *)
(* the filters applied.                                                    *)
(***************************************************************************)
C13_OneMessageForNoItems ==
  AnyPollFetched(lastEv) /\ lastEv.items = <<>>
  => lastEv.text = SummaryBlock(lastEv.feed) \o NoItemsListing(lastEv)

\* The current server has returned "No matching items found." for a document
\* that holds items, all of them removed by the filters.
C13_Witness ==
  /\ server = VERSION
  /\ PollFetched(lastEv)
  /\ lastEv.items = <<>>
  /\ HoldsItems(lastEv)
  /\ lastEv.feed.batch_narrative = Undefined
  /\ lastEv.text = "No matching items found."

(***************************************************************************)
(* C14.  The text of a poll that found the feed changed and has no item to *)
(* list is never a text of the unchanged short circuit: the short circuit  *)
(* returns one of the "no changes" wordings, and a poll that fetched the   *)
(* document and lists nothing returns none of them.                        *)
(***************************************************************************)
NoChangesWordings ==
  {"No changes since last poll. Feed is up to date.",
   "No changes since last poll. 3 sources verified, all clear (confidence: high).",
   "No changes in a since last poll."}

C14_NoItemsIsNotNoChanges ==
  IsPoll(lastEv.tool) /\ lastEv.status = "returned"
  => IF lastEv.fetched
     THEN lastEv.items = <<>> => lastEv.text \notin NoChangesWordings
     ELSE lastEv.text \in NoChangesWordings

\* A poll has fetched a changed feed and returned a text that lists nothing,
\* with a cursor stored that a later poll may find unchanged.
C14_Witness ==
  /\ AnyPollFetched(lastEv)
  /\ lastEv.items = <<>>
  /\ lastEv.text \in {"No matching items found.", "No items found.",
                      "Summary: n1\n\nNo matching items found."}
  /\ Known(cursors, lastEv.key)

(***************************************************************************)
(* C15.  A poll that fetched a document with a non-empty narrative returns *)
(* "Summary: <narrative>", a blank line, then the listing, whether the     *)
(* listing has items or is the "no items" message; without a narrative it  *)
(* returns the listing alone.                                              *)
(***************************************************************************)
\* The first line of a listing with items, by tool, server and filter.
ListingHeader(ev) ==
  LET count == ToString(Len(ev.items))
  IN IF ev.tool = "diffdelta_poll_source" \/ server = VERSION
     THEN count \o " item(s) found:"
     ELSE IF HasLength(ev.args.sources)
          THEN count \o " item(s) matching sources [" \o Join(ev.args.sources.v, ", ") \o "]:"
          ELSE IF HasLength(ev.args.tags) /\ ev.tagMap.present
               THEN count \o " item(s) matching tags [" \o Join(ev.args.tags.v, ", ") \o "]:"
               ELSE count \o " item(s) found:"

\* The listing: the count header, a blank line and the block of each item
\* returned, or the "no items" message.
Listing(ev) ==
  IF ev.items = <<>> THEN NoItemsListing(ev)
  ELSE Join(<<ListingHeader(ev), "">>
              \o [n \in 1..Len(ev.items) |->
                    IF server = VERSION
                    THEN FormatItem(ev.items[n].item, ev.items[n].bucket)
                    ELSE LegacyFormatItem(ev.items[n].item, ev.items[n].bucket)],
            "\n")

C15_SummaryBeforeListing ==
  AnyPollFetched(lastEv)
  => lastEv.text = SummaryBlock(lastEv.feed) \o Listing(lastEv)

\* A poll has returned the summary of a document's narrative before the
\* "no items" message.
C15_Witness ==
  /\ AnyPollFetched(lastEv)
  /\ lastEv.feed.batch_narrative = "n1"
  /\ lastEv.items = <<>>
  /\ lastEv.text = "Summary: n1\n\nNo matching items found."

(***************************************************************************)
(* Vocabulary of the source and tag filter properties.                     *)
(***************************************************************************)
\* The buckets the server that runs includes.
IncludedHere(ev) ==
  IF server = VERSION THEN Included(ev.args.include_removed)
  ELSE LegacyIncluded(ev.args.include_removed)

\* The poll filtered by tags: tags were requested and a lookup was built.
TagFilterApplied(ev) == HasLength(ev.args.tags) /\ ev.tagMap.present

(***************************************************************************)
(* C16.  Source filter, as claimed: when a source allow-list is supplied   *)
(* to diffdelta_poll, an item of an included bucket passes if and only if  *)
(* its source id (the empty id when it has none) is in the list; when none *)
(* is supplied every item passes.  Read off the polls that applied no tag  *)
(* filter, where passing the source filter is being returned.              *)
(***************************************************************************)
C16_SuppliedListFilters ==
  PollFetched(lastEv) /\ ~TagFilterApplied(lastEv)
  => Returned(lastEv) =
       {p \in Listed(lastEv.feed) :
          /\ p.bucket \in IncludedHere(lastEv)
          /\ lastEv.args.sources.present => InAllowList(p.item, lastEv.args.sources)}

(***************************************************************************)
(* C16, amended.  The same for a non-empty allow-list; an empty list, like *)
(* none, lets every item pass.  Under a tag filter no item outside the     *)
(* allow-list is returned either.                                          *)
(***************************************************************************)
C16_NonEmptyListFilters ==
  PollFetched(lastEv)
  => /\ ~TagFilterApplied(lastEv)
        => Returned(lastEv) =
             {p \in Listed(lastEv.feed) :
                /\ p.bucket \in IncludedHere(lastEv)
                /\ HasLength(lastEv.args.sources)
                   => InAllowList(p.item, lastEv.args.sources)}
     /\ HasLength(lastEv.args.sources)
        => \A p \in Returned(lastEv) : InAllowList(p.item, lastEv.args.sources)

\* A poll with the allow-list [""] has returned the item without a source
\* id and left out an item of source "a" of an included bucket.
C16_Witness ==
  /\ PollFetched(lastEv)
  /\ lastEv.args.sources = Arr(<<"">>)
  /\ \E p \in Returned(lastEv) : p.item = ItemNoSource
  /\ \E p \in Listed(lastEv.feed) :
        p.item = ItemA /\ p.bucket \in IncludedHere(lastEv) /\ p \notin Returned(lastEv)

(***************************************************************************)
(* C17.  Tag filter: when a tag allow-list is supplied and the lookup of   *)
(* sources.json succeeds, an item passes if and only if the tags the       *)
(* lookup gives for its source id share a tag with the requested ones; an  *)
(* item whose source id is not in the lookup does not pass.  Read off the  *)
(* polls without a source filter, where passing is being returned; under a *)
(* source filter no item without a shared tag is returned either.          *)
(***************************************************************************)
C17_TagFilterPassesSharedTag ==
  PollFetched(lastEv) /\ lastEv.step = "sources" /\ lastEv.tagMap.present
  => /\ HasLength(lastEv.args.tags)
     /\ lastEv.error = "none"
     /\ \A p \in Returned(lastEv) :
           SharesTag(p.item, lastEv.args.tags, lastEv.tagMap.map)
     /\ ~HasLength(lastEv.args.sources)
        => Returned(lastEv) =
             {p \in Listed(lastEv.feed) :
                /\ p.bucket \in IncludedHere(lastEv)
                /\ SharesTag(p.item, lastEv.args.tags, lastEv.tagMap.map)}
     /\ \A p \in Returned(lastEv) :
           (IF p.item.source = Undefined THEN "" ELSE p.item.source)
             \in DOMAIN lastEv.tagMap.map

\* A poll for the tags ops and releases has returned the item of source "b",
\* tagged releases, and left out the item of source "a" and the item without
\* a source id, both listed in an included bucket.
C17_Witness ==
  /\ PollFetched(lastEv)
  /\ lastEv.tagMap.present
  /\ lastEv.args.tags = Arr(<<"ops", "releases">>)
  /\ ~HasLength(lastEv.args.sources)
  /\ \E p \in Returned(lastEv) : p.item = ItemB
  /\ \E p \in Listed(lastEv.feed) :
        p.item = ItemA /\ p.bucket \in IncludedHere(lastEv) /\ p \notin Returned(lastEv)
  /\ \E p \in Listed(lastEv.feed) :
        /\ p.item = ItemNoSource
        /\ p.bucket \in IncludedHere(lastEv)
        /\ p \notin Returned(lastEv)

(***************************************************************************)
(* C18.  Independence across feed keys under concurrency: in every         *)
(* interleaving, a continuation of an invocation works on the key of its   *)
(* feed alone (diffdelta_poll on "global", diffdelta_poll_source(s) on     *)
(* "source:s"): the entry of every other key is after the step what it was *)
(* before, and whether a poll takes the short circuit is decided by the    *)
(* entry of its own key and the head cursor it received.                   *)
(***************************************************************************)
\* The feed key of an invocation.
KeyOf(v) ==
  IF v.tool = "diffdelta_poll" THEN "global"
  ELSE IF v.tool = "diffdelta_poll_source" THEN "source:" \o v.source_id
  ELSE IF v.source_id \in {Undefined, ""} THEN "global"
  ELSE "source:" \o v.source_id

\* The entry of a key: <<>> when Unknown, <<c>> when Known(c).
Entry(store, key) == IF key \in DOMAIN store THEN <<store[key]>> ELSE <<>>

C18_OtherKeysUntouched ==
  [][\A i \in Slots :
       Ran(i)
       => /\ lastEv'.key = KeyOf(inv[i])
          /\ \A k \in (DOMAIN cursors \cup DOMAIN cursors') \ {KeyOf(inv[i])} :
                Entry(cursors', k) = Entry(cursors, k)
          /\ (IsPoll(inv[i].tool) /\ inv[i].pc = "head" /\ lastEv'.error = "none"
              => (lastEv'.status = "returned"
                  <=> Entry(cursors, KeyOf(inv[i])) = <<lastEv'.newCursor>>))]_vars

\* While a diffdelta_poll awaits its document, a diffdelta_poll_source has
\* stored a cursor for "source:a": "global" is still Unknown.
C18_Witness ==
  /\ \E i \in Slots : inv[i].tool = "diffdelta_poll" /\ inv[i].pc = "feed"
  /\ lastEv.tool = "diffdelta_poll_source"
  /\ lastEv.fetched
  /\ Known(cursors, "source:a")
  /\ ~Known(cursors, "global")

(***************************************************************************)
(* C19.                                                                    *)
(***************************************************************************)
\* Every invocation in flight eventually leaves its slot.
Terminates == \A i \in Slots : (inv[i].pc # "idle") ~> (inv[i].pc = "idle")

\* A continuation that ends its invocation hands the caller a result or a
\* failure.
EndsInResultOrFailure ==
  [][\A i \in Slots :
       Ran(i) /\ inv'[i].pc = "idle" => lastEv'.status \in {"returned", "failed"}]_vars

\* The continuation in this step resumed from a fetch that timed out.
TimedOut(i) == Ran(i) /\ lastEv'.error = "TimeoutError"

\* C19 as stated: every invocation terminates, given that each network call
\* ends in a response, an error or a timeout: it eventually returns a result
\* or a failure, and whichever fetch timed out, the invocation fails at once.
C19_TimeoutAlwaysFails ==
  /\ Terminates
  /\ EndsInResultOrFailure
  /\ [][\A i \in Slots :
          TimedOut(i) => inv'[i].pc = "idle" /\ lastEv'.status = "failed"]_vars

\* C19, amended: every invocation terminates, given that each network call
\* ends in a response, an error or a timeout: it eventually returns a result
\* or a failure, and a timed-out fetch ends the invocation at once instead of
\* being waited for: with a failure, except that a timed-out sources.json
\* fetch of diffdelta_poll ends it with the result.
C19_TimeoutEndsInvocation ==
  /\ Terminates
  /\ EndsInResultOrFailure
  /\ [][\A i \in Slots :
          TimedOut(i)
          => /\ inv'[i].pc = "idle"
             /\ IF inv[i].tool = "diffdelta_poll" /\ inv[i].pc = "sources"
                THEN lastEv'.status = "returned"
                ELSE lastEv'.status = "failed"]_vars

\* A poll whose sources.json fetch timed out has returned while another
\* invocation still awaits its document.
C19_Witness ==
  /\ lastEv.tool = "diffdelta_poll"
  /\ lastEv.step = "sources"
  /\ lastEv.error = "TimeoutError"
  /\ lastEv.status = "returned"
  /\ \E i \in Slots : inv[i].pc # "idle"
  /\ \E i \in Slots : inv[i].pc = "idle"

(***************************************************************************)
(* C20.                                                                    *)
(***************************************************************************)
\* The endpoints of diffdelta_poll in the order of the handler's steps.
PollEndpoints == <<PollHeadUrl, PollLatestUrl, PollSourcesUrl>>

IsPrefix(s, t) == Len(s) <= Len(t) /\ \A n \in 1..Len(s) : s[n] = t[n]

\* A tag filter with at least one tag was supplied.
TagsSupplied(args) == args.tags.present /\ args.tags.v # <<>>

\* The request an invocation in flight awaits is the last one it issued: all
\* the requests before it have been answered.
Outstanding(v) ==
  IF v.pc = "head" THEN 1 ELSE IF v.pc = "feed" THEN 2 ELSE 3

\* C20: within one diffdelta_poll invocation, in either server, the requests
\* issued form a prefix of head.json, latest.json, sources.json; one request
\* is outstanding at a time, the last issued; a request is issued only by the
\* continuation that received the previous one's body, one request at most
\* and never after a failed fetch, so no endpoint is requested twice; and
\* sources.json is requested only when a non-empty tag filter was supplied.
C20_RequestsFormPrefix ==
  [][\A i \in Slots :
       Ran(i) /\ inv[i].tool = "diffdelta_poll"
       => /\ IsPrefix(inv[i].reqs, lastEv'.reqs)
          /\ IsPrefix(lastEv'.reqs, PollEndpoints)
          /\ Len(inv[i].reqs) = Outstanding(inv[i])
          /\ Len(lastEv'.reqs) <= Len(inv[i].reqs) + 1
          /\ (Len(lastEv'.reqs) > Len(inv[i].reqs)
              <=> lastEv'.status = "awaiting")
          /\ (lastEv'.status = "awaiting"
              => /\ lastEv'.error = "none"
                 /\ inv'[i].reqs = lastEv'.reqs
                 /\ Len(inv'[i].reqs) = Outstanding(inv'[i]))
          /\ (lastEv'.error # "none" => lastEv'.reqs = inv[i].reqs)
          /\ (Includes(lastEv'.reqs, PollSourcesUrl) => TagsSupplied(inv[i].args))]_vars

\* A poll with a tag filter has issued all three requests and returned, its
\* last fetch having failed without a second request for sources.json.
C20_Witness ==
  /\ lastEv.tool = "diffdelta_poll"
  /\ lastEv.reqs = PollEndpoints
  /\ lastEv.error # "none"
  /\ lastEv.status = "returned"
  /\ TagsSupplied(lastEv.args)

(***************************************************************************)
(* C21.                                                                    *)
(***************************************************************************)
\* The continuation in this step is the one of a poll in slot i that
\* received its full feed with a non-empty cursor.
FetchedWithCursor(i) ==
  /\ Ran(i)
  /\ IsPoll(inv[i].tool)
  /\ inv[i].pc = "feed"
  /\ lastEv'.error = "none"
  /\ Truthy(lastEv'.feedCursor)

\* C21: the lifecycle of a feed key's entry.  An entry appears or changes
\* only in the step in which a poll on that key received its full feed with a
\* non-empty cursor, every such step leaves the document's cursor in the
\* entry whatever it held, and an entry never disappears: a Known key stays
\* Known.
C21_EntryLifecycle ==
  [][/\ \A k \in DOMAIN cursors : Known(cursors', k)
     /\ \A k \in DOMAIN cursors' :
          Entry(cursors', k) # Entry(cursors, k)
          => \E i \in Slots : /\ FetchedWithCursor(i)
                              /\ KeyOf(inv[i]) = k
                              /\ cursors'[k] = lastEv'.feedCursor
     /\ \A i \in Slots :
          FetchedWithCursor(i)
          => Entry(cursors', KeyOf(inv[i])) = <<lastEv'.feedCursor>>]_vars

\* The global entry, written by a poll that still awaits sources.json, has
\* been overwritten by an overlapping poll with the cursor of another
\* document, and the entry of source a is still there.
C21_Witness ==
  /\ \E j \in Slots : /\ inv[j].tool = "diffdelta_poll"
                      /\ inv[j].pc = "sources"
                      /\ inv[j].wrote
                      /\ inv[j].feed.cursor # lastEv.feedCursor
  /\ lastEv.tool = "diffdelta_poll"
  /\ lastEv.step = "feed"
  /\ lastEv.fetched
  /\ Truthy(lastEv.feedCursor)
  /\ Known(cursors, "global")
  /\ cursors["global"] = lastEv.feedCursor
  /\ Known(cursors, "source:a")

(***************************************************************************)
(* C22.                                                                    *)
(***************************************************************************)
\* A poll without filters has returned the listing of a document that lists
\* one item.
ListedOne(ev) ==
  /\ AnyPollFetched(ev)
  /\ Unfiltered(ev)
  /\ ev.status = "returned"
  /\ DOMAIN ev.feed.buckets = {"new"}
  /\ Len(ev.feed.buckets["new"]) = 1
  /\ Len(ev.items) = 1

\* The item of such a document.
TheItem(ev) == ev.feed.buckets["new"][1]

\* The item carries nothing but source, headline and its risk.
RiskOnly(item) ==
  /\ {"source", "headline"} \subseteq DOMAIN item
  /\ DOMAIN item \subseteq {"source", "headline", "risk", "risk_score"}

\* The risk string of r = t tenths: ' [risk: r/10]', r with one decimal.
RiskString(t) ==
  " [risk: " \o ToString(t \div 10) \o "." \o ToString(t % 10) \o "/10]"

\* The listing of one new item of source a with a risk string.
ListingWithRisk(riskString) == "1 item(s) found:\n\n[NEW] a: h1" \o riskString

\* C22 as stated: for every r of the 0-10 scale in tenths, 0 included, an
\* item with the modern score risk.score = r/10 and an item with only the
\* legacy score risk_score = r render the same risk string 'r/10' with one
\* decimal; an item with both renders the modern score, an item with neither
\* renders no risk string.
C22_RiskNormalized ==
  ListedOne(lastEv) /\ RiskOnly(TheItem(lastEv))
  => LET item == TheItem(lastEv)
     IN IF Has(item, "risk") /\ Has(item.risk, "score")
        THEN lastEv.text = ListingWithRisk(RiskString(item.risk.score \div 10))
        ELSE IF Has(item, "risk_score") /\ ~Has(item, "risk")
             THEN lastEv.text = ListingWithRisk(RiskString(item.risk_score \div 100))
             ELSE Has(item, "risk_score") \/ lastEv.text = ListingWithRisk("")

\* The current server has rendered an item whose only score is the legacy
\* score 0 without a risk string.
C22_Witness ==
  /\ server = VERSION
  /\ ListedOne(lastEv)
  /\ DOMAIN TheItem(lastEv) = {"source", "headline", "risk_score"}
  /\ TheItem(lastEv).risk_score = 0
  /\ lastEv.text = ListingWithRisk("")

(***************************************************************************)
(* C23.                                                                    *)
(***************************************************************************)
\* The item carries nothing but source, headline, url and content.
ContentOnly(item) ==
  /\ {"source", "headline"} \subseteq DOMAIN item
  /\ DOMAIN item \subseteq {"source", "headline", "url", "content"}

\* The excerpt text the claim chooses: the excerpt field of an object-shaped
\* content, else its summary field, else a raw string content; empty when
\* there is none.
Chosen(item) ==
  LET content == IF "content" \in DOMAIN item THEN item.content ELSE [type |-> "undefined"]
      TextIn(f) == IF f \in DOMAIN content THEN content[f] ELSE <<>>
  IN CASE content.type = "object" ->
            IF TextIn("excerpt_text") # <<>> THEN TextIn("excerpt_text")
            ELSE TextIn("summary")
       [] content.type = "string" -> content.value
       [] OTHER -> <<>>

\* The first n characters of a text, the whole text when it is shorter.
FirstChars(text, n) == [k \in 1..(IF Len(text) < n THEN Len(text) ELSE n) |-> text[k]]

\* The listing of one new item of source a, with its URL line when it has a
\* URL.
ListingOf(item) ==
  "1 item(s) found:\n\n[NEW] a: h1"
    \o (IF "url" \in DOMAIN item THEN "\n  URL: " \o item.url ELSE "")

\* C23: in either server the rendered excerpt line of an item is the first
\* 200 characters of the chosen excerpt text, the whole text when it is
\* shorter, behind its indent and with nothing appended; the text is the
\* excerpt field of an object-shaped content, else its summary field, else a
\* raw string content; and there is no excerpt line when that text is empty.
C23_ExcerptCutAt200 ==
  ListedOne(lastEv) /\ ContentOnly(TheItem(lastEv))
  => LET item == TheItem(lastEv)
         shown == FirstChars(Chosen(item), 200)
     IN IF Chosen(item) = <<>>
        THEN lastEv.text = ListingOf(item)
        ELSE /\ lastEv.text = ListingOf(item) \o "\n  " \o Concat(shown)
             /\ Len(lastEv.text) = Len(ListingOf(item)) + 3 + Len(shown)
             /\ Len(shown) <= 200

\* An item whose content is an object with an empty excerpt field and a
\* summary longer than 200 characters has been rendered with an excerpt line
\* of 200 characters.
C23_Witness ==
  /\ ListedOne(lastEv)
  /\ ContentOnly(TheItem(lastEv))
  /\ "content" \in DOMAIN TheItem(lastEv)
  /\ TheItem(lastEv).content.type = "object"
  /\ DOMAIN TheItem(lastEv).content = {"type", "excerpt_text", "summary"}
  /\ Len(TheItem(lastEv).content.excerpt_text) = 0
  /\ Len(TheItem(lastEv).content.summary) > 200
  /\ Len(lastEv.text) = Len(ListingOf(TheItem(lastEv))) + 3 + 200

(***************************************************************************)
(* C24.                                                                    *)
(***************************************************************************)
\* The document holds null in place of an item: malformed, not partial.
HasNullItem(feed) ==
  \E b \in DOMAIN feed.buckets : \E k \in 1..Len(feed.buckets[b]) : IsNull(feed.buckets[b][k])

\* The same document with every bucket it lacks there and empty.
Filled(feed) ==
  [feed EXCEPT !.buckets =
     [b \in BucketNames |-> IF b \in DOMAIN feed.buckets THEN feed.buckets[b] ELSE <<>>]]

\* The text the server's poll produces for the arguments and the lookup of
\* the record from the document `feed`.
TextFor(ev, feed) ==
  IF server # VERSION THEN WithNarrative(feed, LegacyResult(feed, ev.args, ev.tagMap))
  ELSE IF ev.tool = "diffdelta_poll"
       THEN PollText(feed, PollItems(feed, BucketList(ev.args.include_removed),
                                     ev.args.sources, ev.args.tags, ev.tagMap))
       ELSE PollSourceText(feed, BucketList(ev.args.include_removed))

\* The tag of each signal of SignalOf.
TagText(kind) ==
  CASE kind = "severity" -> "severity:high"
    [] kind = "release" -> "release:1.2"
    [] kind = "incident" -> "incident:open"
    [] kind = "deprecation" -> "deprecation:api"

\* The item carries a source, a headline and some of the signals of SignalOf.
SignalsOnly(item) ==
  /\ DOMAIN item = {"source", "headline", "signals"}
  /\ DOMAIN item.signals \subseteq SignalKinds
  /\ \A k \in DOMAIN item.signals : item.signals[k] = SignalOf(k)

\* The Signals line of such an item: a tag for each signal it has, none for
\* the others, no line when it has none.
SignalsLine(item) ==
  LET IsThere(k) == k \in DOMAIN item.signals
      kinds == SelectSeq(<<"severity", "release", "incident", "deprecation">>, IsThere)
  IN IF kinds = <<>> THEN ""
     ELSE "\n  Signals: " \o Join([n \in 1..Len(kinds) |-> TagText(kinds[n])], " | ")

\* C24: partial data is never an error.  A poll that received a document
\* whose buckets mapping, buckets or optional item fields are absent (and
\* that holds no null item) ends with a rendered result, never with a
\* failure; the result is the one of the same document with the absent
\* buckets there and empty; and in the current server an item renders a tag
\* for each signal it has and none for a signal it lacks.
C24_PartialDataRenders ==
  /\ IsPoll(lastEv.tool)
  /\ lastEv.fetched
  /\ lastEv.status # "awaiting"
  /\ ~HasNullItem(lastEv.feed)
  => /\ lastEv.status = "returned"
     /\ lastEv.thrown = "none"
     /\ lastEv.text # ""
     /\ lastEv.text = TextFor(lastEv, Filled(lastEv.feed))
     /\ (server = VERSION /\ ListedOne(lastEv) /\ SignalsOnly(TheItem(lastEv))
         => lastEv.text = ListingWithRisk("") \o SignalsLine(TheItem(lastEv)))

\* The current server has listed, from a document that has no bucket but
\* new, an item whose only signals are its severity and its incident.
C24_Witness ==
  /\ server = VERSION
  /\ ListedOne(lastEv)
  /\ SignalsOnly(TheItem(lastEv))
  /\ DOMAIN TheItem(lastEv).signals = {"severity", "incident"}
  /\ lastEv.thrown = "none"
  /\ lastEv.text
       = "1 item(s) found:\n\n[NEW] a: h1\n  Signals: severity:high | incident:open"

(***************************************************************************)
(* C25.                                                                    *)
(***************************************************************************)
\* The feed publishes its documents in the order of their cursors: the
\* document of c1 first, then the one of c2, and so on.
Generation(c) == CHOOSE n \in 1..NumCursors : c = "c" \o ToString(n)

PublishedBefore(c, d) == Generation(c) < Generation(d)

\* The poll in slot i overlaps the poll whose document arrived last: its own
\* request for latest.json of the same key was outstanding when that
\* document arrived and was saved, so the feed may have served its reply
\* before it served that document.
OverlapsLastSave(i) ==
  /\ inv[i].pc = "feed"
  /\ IsPoll(inv[i].tool)
  /\ IsPoll(lastEv.tool)
  /\ lastEv.step = "feed"
  /\ lastEv.fetched
  /\ Truthy(lastEv.feedCursor)
  /\ lastEv.key = KeyOf(inv[i])
  /\ Entry(cursors, lastEv.key) = <<lastEv.feedCursor>>

\* C25: no stale write by an overlapping poll.  Once the entry of a key holds
\* the cursor of a document D, the continuation of an overlapping poll on
\* that key does not replace it with the cursor of a document the feed
\* published before D.
C25_NoStaleOverwrite ==
  [][\A i \in Slots :
       OverlapsLastSave(i) /\ FetchedWithCursor(i)
       => ~PublishedBefore(cursors'[KeyOf(inv[i])], cursors[KeyOf(inv[i])])]_vars

\* The global entry held c2, saved by a poll that still awaits sources.json,
\* and the document of an overlapping poll has put c1 in its place.
C25_Witness ==
  /\ \E j \in Slots : /\ inv[j].tool = "diffdelta_poll"
                      /\ inv[j].pc = "sources"
                      /\ inv[j].wrote
                      /\ inv[j].feed.cursor = "c2"
  /\ lastEv.tool = "diffdelta_poll"
  /\ lastEv.step = "feed"
  /\ lastEv.fetched
  /\ lastEv.feedCursor = "c1"
  /\ Entry(cursors, "global") = <<"c1">>

(***************************************************************************)
(* C26.  Every feed has stopped changing: head.json and latest.json of a   *)
(* key report one cursor for good.  The global feed and the feed of source *)
(* a report a cursor of their own; the feed of source b reports the empty  *)
(* cursor in both documents.  Every earlier invocation has finished and    *)
(* has left whatever it left in the store.                                 *)
(***************************************************************************)
SettledCursor(key) ==
  IF key = "global" THEN "c1" ELSE IF key = "source:a" THEN "c2" ELSE ""

\* The calls that arrive, and what the remote service serves for a key.
SettledFeed(key) ==
  [checkIds |-> {Undefined, "a"},
   sourceIds |-> {"a", "b"},
   heads |-> HeadBodies({SettledCursor(key)}, {NoCounts}, {FALSE}),
   docs |-> DocBodies({SettledCursor(key)}, {NewAndRemoved}, {Undefined}),
   sourceLists |-> {SourcesAB},
   pollArgs |-> [tags : {NoArray, Arr(<<"security">>)}, sources : {NoArray},
                 include_removed : {FALSE}],
   pollSourceArgs |-> [include_removed : {FALSE}]]

SettledKeys == {"global", "source:a", "source:b"}

\* The stores the earlier invocations can have left: any cursors under any
\* of the keys.
SettledInit ==
  /\ cursors \in UNION {[S -> NonEmptyCursors] : S \in SUBSET SettledKeys}
  /\ inv = [i \in Slots |-> IdleInv]
  /\ lastEv = NoEv
  /\ server = VERSION

NextSettled ==
  \E i \in Slots : \/ Start(i, SettledFeed("global"))
                   \/ Continue(i, SettledFeed(KeyOf(inv[i])))

SpecSettled == SettledInit /\ [][NextSettled]_vars

\* The continuation in this step is the one in which head.json arrived at
\* the invocation in slot i.
HeadArrived(i) == Ran(i) /\ inv[i].pc = "head" /\ lastEv'.error = "none"

\* The continuation ends the invocation with 'no changes' (a poll) or with
\* changed = false (a head check); no full feed is requested.
ReportsNoChanges(i) ==
  /\ inv'[i].pc = "idle"
  /\ lastEv'.status = "returned"
  /\ ~lastEv'.fetched
  /\ lastEv'.reqs = inv[i].reqs
  /\ CASE inv[i].tool = "diffdelta_poll"
            -> lastEv'.text = "No changes since last poll. Feed is up to date."
       [] inv[i].tool = "diffdelta_poll_source"
            -> lastEv'.text = "No changes in " \o inv[i].source_id \o " since last poll."
       [] OTHER -> ~lastEv'.out.changed_since_last_check

\* The last continuation was the one of a poll on the key that received the
\* full feed.
AfterFetch(key) ==
  /\ IsPoll(lastEv.tool)
  /\ lastEv.key = key
  /\ lastEv.step = "feed"
  /\ lastEv.error = "none"
  /\ lastEv.fetched

\* The continuation in this step is the one of a poll in slot i that
\* received its full feed.
Fetched(i) ==
  /\ Ran(i)
  /\ IsPoll(inv[i].tool)
  /\ inv[i].pc = "feed"
  /\ lastEv'.error = "none"

\* The claim as stated, for every key: once a poll on the key has received
\* the full feed no further poll on it receives the full feed, and every
\* poll and head check on it whose head.json arrives after that reports no
\* changes.
C26_OneFetchSettlesAnyFeed ==
  [][\A i \in Slots :
       AfterFetch(KeyOf(inv[i]))
       => /\ ~Fetched(i)
          /\ HeadArrived(i) => ReportsNoChanges(i)]_vars

\* C26: convergence.  On a feed that has stopped changing and reports the
\* same non-empty cursor c in head.json and latest.json: a poll that
\* receives the full feed leaves c in the entry of the key; the entry keeps
\* c from then on; and every poll and head check on the key whose head.json
\* arrives while the entry holds c reports no changes and requests nothing
\* more.  Hence every poll whose head.json arrives after one poll has
\* received the full feed short-circuits; only polls that overlap that one
\* fetch the full feed as well.
C26_Converges ==
  [][\A k \in SettledKeys :
       Truthy(SettledCursor(k))
       => /\ Entry(cursors, k) = <<SettledCursor(k)>>
             => Entry(cursors', k) = <<SettledCursor(k)>>
          /\ \A i \in Slots :
               KeyOf(inv[i]) = k
               => /\ Fetched(i) => Entry(cursors', k) = <<SettledCursor(k)>>
                  /\ HeadArrived(i) /\ Entry(cursors, k) = <<SettledCursor(k)>>
                     => ReportsNoChanges(i)]_vars

\* A poll has received the global feed, has saved c1 and awaits sources.json,
\* and the poll whose head.json arrived after that has reported no changes.
C26_Witness ==
  /\ \E j \in Slots : /\ inv[j].tool = "diffdelta_poll"
                      /\ inv[j].pc = "sources"
                      /\ inv[j].wrote
  /\ Entry(cursors, "global") = <<"c1">>
  /\ lastEv.tool = "diffdelta_poll"
  /\ lastEv.step = "head"
  /\ lastEv.status = "returned"
  /\ ~lastEv.fetched
  /\ lastEv.text = "No changes since last poll. Feed is up to date."

(***************************************************************************)
(* C27.  Polls of either server, one at a time, with and without filters,  *)
(* over documents with and without a cursor and a sources.json lookup that *)
(* can fail.                                                               *)
(***************************************************************************)
Committing ==
  [checkIds |-> {Undefined},
   sourceIds |-> {"a"},
   heads |-> HeadBodies({"", "c1", "c2"}, {NoCounts}, {FALSE}),
   docs |-> DocBodies({"", "c1"}, {EmptyBuckets, NewAndRemoved, AllBuckets}, {Undefined}),
   sourceLists |-> {SourcesAB, SourcesMissing},
   pollArgs |-> [tags : {NoArray, Arr(<<"security">>), Arr(<<"ops">>)},
                 sources : {NoArray, Arr(<<"b">>), Arr(<<"z">>)},
                 include_removed : BOOLEAN],
   pollSourceArgs |-> [include_removed : BOOLEAN]]

NextCommit ==
  \/ Quiet(1) /\ (Start(1, Committing) \/ LegacyStart(1, Committing))
  \/ Continue(1, Committing)
  \/ LegacyContinue(1, Committing)

SpecCommit == AnyInit /\ [][NextCommit]_vars

\* The poll in slot i follows at once a poll on the same key that received
\* the full feed, and the head snapshot that has arrived reports the cursor
\* of that document: the feed has not changed.
FollowsFetch(i) ==
  /\ HeadArrived(i)
  /\ IsPoll(inv[i].tool)
  /\ IsPoll(lastEv.tool)
  /\ lastEv.key = KeyOf(inv[i])
  /\ lastEv.fetched
  /\ lastEv.status = "returned"
  /\ lastEv'.newCursor = lastEv.feedCursor

\* The continuation in this step is the one that follows the sources.json
\* lookup of the poll in slot i, whether it succeeded or failed.
LookedUp(i) == Ran(i) /\ inv[i].pc = "sources"

\* What C27 says of a step when every document cursor in `cs` is committed.
CommitsCursors(cs) ==
  \A i \in Slots :
    /\ Fetched(i) /\ lastEv'.feedCursor \in cs
       => Entry(cursors', KeyOf(inv[i])) = <<lastEv'.feedCursor>>
    /\ LookedUp(i) /\ inv[i].feed.cursor \in cs
       => /\ cursors' = cursors
          /\ Entry(cursors, KeyOf(inv[i])) = <<inv[i].feed.cursor>>
    /\ FollowsFetch(i) /\ lastEv.feedCursor \in cs
       => ReportsNoChanges(i) /\ lastEv'.items = <<>>

\* The claim as stated: every poll that receives the full feed commits the
\* document's cursor, whatever the document's cursor is.
C27_CommitsWhateverTheCursor == [][CommitsCursors(SentCursors)]_vars

\* C27: the cursor is committed before and independently of filtering.  A
\* poll that receives a full feed with a non-empty cursor leaves that cursor
\* in the entry of its key whatever its tags, sources and include_removed
\* arguments are and whether or not an item is rendered; the continuation
\* after the sources.json lookup, successful or failed, leaves the store as
\* it is; and the poll that follows at once on the unchanged feed, whatever
\* its filters, returns 'no changes' and no item.
C27_CommittedBeforeFiltering == [][CommitsCursors(NonEmptyCursors)]_vars

\* A poll with a tag filter and a source filter that no item passes has
\* received a document that lists items; its sources.json lookup failed; it
\* rendered no item, and the document's cursor is in the store.
C27_Witness ==
  /\ lastEv.tool = "diffdelta_poll"
  /\ lastEv.step = "sources"
  /\ lastEv.error # "none"
  /\ lastEv.status = "returned"
  /\ HasLength(lastEv.args.tags)
  /\ HasLength(lastEv.args.sources)
  /\ lastEv.feed.buckets = NewAndRemoved
  /\ lastEv.items = <<>>
  /\ lastEv.feedCursor = "c1"
  /\ Entry(cursors, "global") = <<"c1">>

(***************************************************************************)
(* C28.  Each feed serves documents with cursors of its own, and a head    *)
(* snapshot can report a cursor that no document carries.                  *)
(***************************************************************************)
\* The cursors the documents of a feed carry.
DocCursors(key) == IF key = "global" THEN {"g1", "g2"} ELSE {"a1"}

\* A cursor that only head snapshots report.
HeadOnlyCursor == "h1"

\* The calls that arrive, and what the remote service serves for a key.
KeyedFeed(key) ==
  [checkIds |-> {Undefined, "a"},
   sourceIds |-> {"a"},
   heads |-> HeadBodies({HeadOnlyCursor} \cup DocCursors(key), {NoCounts}, {FALSE}),
   docs |-> DocBodies({""} \cup DocCursors(key), {NewAndRemoved}, {Undefined}),
   sourceLists |-> {SourcesAB},
   pollArgs |-> [tags : {NoArray, Arr(<<"security">>)}, sources : {NoArray},
                 include_removed : {FALSE}],
   pollSourceArgs |-> [include_removed : {FALSE}]]

NextKeyed ==
  \E i \in Slots : \/ Start(i, KeyedFeed("global"))
                   \/ Continue(i, KeyedFeed(KeyOf(inv[i])))

SpecKeyed == Init /\ [][NextKeyed]_vars

\* C28: the store invariant.  In every reachable state every value in the
\* cursor store is a non-empty cursor carried by a latest.json document of
\* the feed of its key; the cursor that only head snapshots report is never
\* stored, and neither is the empty cursor.
C28_StoreInvariant ==
  \A k \in DOMAIN cursors :
    /\ k \in {"global", "source:a"}
    /\ cursors[k] # Undefined
    /\ cursors[k] # ""
    /\ cursors[k] # HeadOnlyCursor
    /\ \E d \in KeyedFeed(k).docs : d.cursor = cursors[k]
    /\ cursors[k] \in DocCursors(k)

\* Both entries hold a cursor of their feed's documents, and the poll that
\* wrote last had been sent to the full feed by the head-only cursor.
C28_Witness ==
  /\ Entry(cursors, "global") = <<"g2">>
  /\ Entry(cursors, "source:a") = <<"a1">>
  /\ IsPoll(lastEv.tool)
  /\ lastEv.fetched
  /\ lastEv.newCursor = HeadOnlyCursor
  /\ lastEv.feedCursor = cursors[lastEv.key]

(***************************************************************************)
(* C29.  The cursor tools of either server in one slot, with resource      *)
(* reads and the one-fetch tools in that slot and, overlapping them, in    *)
(* the other.                                                              *)
(***************************************************************************)
NextRead ==
  \/ Quiet(1) /\ (Start(1, Concurrent) \/ LegacyStart(1, Concurrent))
  \/ Continue(1, Concurrent)
  \/ LegacyContinue(1, Concurrent)
  \/ \E i \in Slots : \/ StartRead(i, Concurrent)
                      \/ ReadReply(i, Concurrent)
                      \/ StartLookup(i)
                      \/ LookupReply(i, Concurrent)

SpecRead == AnyInit /\ [][NextRead]_vars

\* The invocation in slot i is a resource read or a call of one of the
\* one-fetch tools.
ReadsOrLooksUp(i) == inv[i].pc \in {"read", "lookup"}

\* The feed key whose full feed a resource returns.
ResourceKey(ev) ==
  IF ev.tool = "diffdelta://feed/global" THEN "global" ELSE "source:" \o ev.source_id

\* The last continuation was a resource read that returned the full feed of
\* the key of the poll in slot i, the head snapshot that has arrived reports
\* the cursor of that document, and the poll was the next call to arrive.
FollowsRead(i) ==
  /\ HeadArrived(i)
  /\ IsPoll(inv[i].tool)
  /\ lastEv.step = "read"
  /\ lastEv.status = "returned"
  /\ lastEv.tool \in {"diffdelta://feed/global", SourceFeedResource}
  /\ ResourceKey(lastEv) = KeyOf(inv[i])
  /\ lastEv'.newCursor = lastEv.feed.cursor

\* C29: resources and one-fetch tools leave the cursor store alone.  No
\* step of a resource read or of diffdelta_list_sources,
\* diffdelta_discover_stack or diffdelta_check_health changes the store,
\* and what such a step returns does not depend on the store; so after a
\* resource has returned the full feed of a key, the entry of the key is
\* what it was, and the following poll on that feed takes the short circuit
\* only if the entry already held the document's cursor: with no entry, or
\* another cursor in it, the poll requests the full feed.
C29_ResourcesLeaveStore ==
  [][\A i \in Slots :
       /\ inv[i].pc = "idle" /\ inv'[i].pc \in {"read", "lookup"} => cursors' = cursors
       /\ Ran(i) /\ ReadsOrLooksUp(i)
          => /\ cursors' = cursors
             /\ lastEv'.after = "none"
             /\ lastEv'.key = ""
             /\ lastEv'.out = NoOut
       /\ FollowsRead(i)
          => /\ cursors' = cursors
             /\ (inv'[i].pc = "feed")
                  = (Entry(cursors, KeyOf(inv[i])) # <<lastEv.feed.cursor>>)
             /\ ~Known(cursors, KeyOf(inv[i])) => lastEv'.status = "awaiting"]_vars

\* A read of diffdelta://feed/global has returned a document with cursor c1,
\* and the store has no entry for the global feed.
C29_Witness ==
  /\ lastEv.tool = "diffdelta://feed/global"
  /\ lastEv.step = "read"
  /\ lastEv.status = "returned"
  /\ lastEv.feed.cursor = "c1"
  /\ lastEv.feed.buckets = NewAndRemoved
  /\ ~Known(cursors, "global")
  /\ Known(cursors, "source:a")

(***************************************************************************)
(* C30.  Either server, one invocation at a time, over every source id,    *)
(* head cursor and document cursor.                                        *)
(***************************************************************************)
SideBySide ==
  [checkIds |-> {Undefined, "", "a"},
   sourceIds |-> {"", "a"},
   heads |-> HeadBodies({Undefined} \cup NonEmptyCursors, {NoCounts}, {FALSE}),
   docs |-> DocBodies(SentCursors, {NewAndRemoved}, {Undefined}),
   sourceLists |-> {SourcesAB},
   pollArgs |-> [tags : {NoArray, Arr(<<"security">>)}, sources : {NoArray},
                 include_removed : {FALSE}],
   pollSourceArgs |-> [include_removed : {FALSE}]]

NextBoth ==
  \/ Quiet(1) /\ (Start(1, SideBySide) \/ LegacyStart(1, SideBySide))
  \/ Continue(1, SideBySide)
  \/ LegacyContinue(1, SideBySide)

SpecBoth == AnyInit /\ [][NextBoth]_vars

\* The cursor state machine, written without the version: the store after
\* the continuation of invocation v that ended with the fetch outcome
\* `error`, read the head cursor `head` or received a document with the
\* cursor `doc`.
MachineStore(store, v, error, doc) ==
  IF IsPoll(v.tool) /\ v.pc = "feed" /\ error = "none" /\ doc # Undefined /\ doc # ""
  THEN [k \in DOMAIN store \cup {KeyOf(v)} |-> IF k = KeyOf(v) THEN doc ELSE store[k]]
  ELSE store

\* The machine's decision when head.json has arrived: the cursor is the
\* stored one (short circuit, changed = false) or it is not (full fetch,
\* changed = true).
MachineSame(store, v, head) ==
  /\ KeyOf(v) \in DOMAIN store
  /\ store[KeyOf(v)] = head

\* C30: the legacy and the current server implement the same cursor state
\* machine.  Every continuation of either server leaves the store that the
\* version-free machine gives for the same store, invocation, fetch outcome
\* and cursors; every poll of either server takes the short circuit exactly
\* when the machine decides so and requests the full feed otherwise; and
\* every head check of either server reports changed = false exactly then.
\* Run side by side on the same invocations with the same fetch outcomes
\* and cursors, the two servers therefore hold equal stores after every
\* step and take the same decisions.
C30_SameCursorMachine ==
  [][\A i \in Slots :
       /\ Arrived(i) => cursors' = cursors
       /\ Ran(i)
          => /\ cursors' = MachineStore(cursors, inv[i], lastEv'.error, lastEv'.feedCursor)
             /\ HeadArrived(i) /\ IsPoll(inv[i].tool)
                => /\ (inv'[i].pc = "idle")
                        = MachineSame(cursors, inv[i], lastEv'.newCursor)
                   /\ (inv'[i].pc = "feed")
                        = ~MachineSame(cursors, inv[i], lastEv'.newCursor)
                   /\ (lastEv'.status = "returned")
                        = MachineSame(cursors, inv[i], lastEv'.newCursor)
             /\ HeadArrived(i) /\ inv[i].tool = "diffdelta_check_head"
                => lastEv'.out.changed_since_last_check
                     = ~MachineSame(cursors, inv[i], lastEv'.out.cursor)]_vars

\* The legacy server holds the cursor c2 for source a, saved by a poll, and
\* its head check on source a has just reported changed = false.
C30_Witness ==
  /\ server = LegacyVersion
  /\ lastEv.tool = "diffdelta_check_head"
  /\ lastEv.source_id = "a"
  /\ lastEv.status = "returned"
  /\ lastEv.out.cursor = "c2"
  /\ ~lastEv.out.changed_since_last_check
  /\ Entry(cursors, "source:a") = <<"c2">>

(***************************************************************************)
(* C31.                                                                    *)
(***************************************************************************)
\* The item at place n of bucket b of the document passes the filters of the
\* poll: its source id is in the source allow-list when one was given, and
\* its source has a requested tag when tags were given and the lookup came.
PassesFilters(ev, b, n) ==
  LET item == ev.feed.buckets[b][n]
  IN /\ HasLength(ev.args.sources) => InAllowList(item, ev.args.sources)
     /\ TagsSupplied(ev.args) /\ ev.tagMap.present
        => SharesTag(item, ev.args.tags, ev.tagMap.map)

\* The occurrences of items in the included buckets that pass the filters:
\* an item listed in two buckets, or twice in one, occurs twice.
Occurrences(ev) ==
  UNION {{<<b, n>> : n \in {m \in 1..Len(ev.feed.buckets[b]) : PassesFilters(ev, b, m)}} :
           b \in Included(ev.args.include_removed) \cap DOMAIN ev.feed.buckets}

\* The block of an item that has a source, a headline and nothing else.
PlainBlock(item, b) ==
  "[" \o (CASE b = "flagged" -> "FLAGGED" [] b = "new" -> "NEW"
            [] b = "updated" -> "UPDATED" [] b = "removed" -> "REMOVED")
      \o "] " \o (IF item.source = Undefined THEN "undefined" ELSE item.source)
      \o ": " \o item.headline

\* The blocks of the occurrences of one bucket, in the document's order.
BlocksOf(ev, b) ==
  LET InOcc(n) == <<b, n>> \in Occurrences(ev)
      listed == IF b \in DOMAIN ev.feed.buckets THEN Len(ev.feed.buckets[b]) ELSE 0
      places == SelectSeq([n \in 1..listed |-> n], InOcc)
  IN [k \in 1..Len(places) |-> PlainBlock(ev.feed.buckets[b][places[k]], b)]

\* One block for each occurrence, under the label of its bucket.
Blocks(ev) ==
  BlocksOf(ev, "flagged") \o BlocksOf(ev, "new") \o BlocksOf(ev, "updated")
    \o BlocksOf(ev, "removed")

\* C31: no deduplication and an exact count.  A poll of the current server
\* that received the full feed renders one block for each occurrence of an
\* item in the included buckets that passes the filters, an item listed in
\* two included buckets once under each label, and the number in the header
\* 'N item(s) found:' is the number of those blocks.
C31_CountIsExact ==
  server = VERSION /\ AnyPollFetched(lastEv)
  => LET N == Cardinality(Occurrences(lastEv))
     IN /\ Len(lastEv.items) = N
        /\ Len(Blocks(lastEv)) = N
        /\ N > 0
           => lastEv.text
                = WithNarrative(lastEv.feed,
                    ToString(N) \o " item(s) found:\n\n" \o Join(Blocks(lastEv), "\n"))

\* A poll with every bucket included has received a document that lists the
\* item of source a under flagged and under new: three blocks, the item of
\* source a twice, and the header says 3.
C31_Witness ==
  /\ server = VERSION
  /\ lastEv.tool = "diffdelta_poll"
  /\ AnyPollFetched(lastEv)
  /\ Unfiltered(lastEv)
  /\ lastEv.feed.buckets = TwiceListed
  /\ lastEv.feed.batch_narrative = Undefined
  /\ lastEv.text = "3 item(s) found:\n\n[FLAGGED] a: h1\n[NEW] a: h1\n[NEW] b: h2"

(***************************************************************************)
(* C32.  Head checks and polls of the current server, one at a time, over  *)
(* head snapshots whose counts lack any of their fields or hold any count  *)
(* up to MaxCount.                                                         *)
(***************************************************************************)
CountFields == {"new", "updated", "removed", "flagged"}

\* The `counts` mappings served: some of the fields, the flagged and the new
\* count anything up to MaxCount, the updated and the removed count one.
AllCounts ==
  UNION {{c \in [S -> 0..MaxCount] :
            \A f \in S \ {"flagged", "new"} : c[f] = 1} : S \in SUBSET CountFields}

Advising ==
  [checkIds |-> {Undefined, "a"},
   sourceIds |-> {"a"},
   heads |-> HeadBodies({"c1", "c2"}, AllCounts, {FALSE}),
   docs |-> DocBodies({"c1"}, {EmptyBuckets}, {Undefined}),
   sourceLists |-> {SourcesAB},
   pollArgs |-> [tags : {NoArray, Arr(<<"security">>)}, sources : {NoArray},
                 include_removed : {FALSE}],
   pollSourceArgs |-> [include_removed : {FALSE}]]

NextAdvice == (Quiet(1) /\ Start(1, Advising)) \/ Continue(1, Advising)

SpecAdvice == Init /\ [][NextAdvice]_vars

\* A head check has returned its object.
HeadChecked(ev) == ev.tool = "diffdelta_check_head" /\ ev.status = "returned"

\* A count of the snapshot the head check received, zero when the snapshot
\* lacks it.
CountOf(ev, f) == IF f \in DOMAIN ev.headCounts THEN ev.headCounts[f] ELSE 0

\* C32: the advice of diffdelta_check_head is decided by strict priority.
\* With changed = false it is the 'no changes' advice whatever the counts
\* are; otherwise the 'flagged items' advice when the flagged count is above
\* zero, else the 'new items' advice when the new count is above zero, else
\* the 'low priority' advice; and each count the object reports is the
\* snapshot's, zero for a count the snapshot lacks.
C32_AdviceByPriority ==
  HeadChecked(lastEv)
  => /\ \A f \in CountFields : lastEv.out.counts[f] = CountOf(lastEv, f)
     /\ lastEv.out.next_step
          = (IF ~lastEv.out.changed_since_last_check
             THEN "No changes since last check. Feed is up to date."
             ELSE IF CountOf(lastEv, "flagged") > 0
             THEN "Flagged items detected. Call diffdelta_poll to get items with action codes."
             ELSE IF CountOf(lastEv, "new") > 0
             THEN "New items available. Call diffdelta_poll to review."
             ELSE "Cursor changed but no flagged/new items. Low priority.")

\* A head check of a snapshot with flagged and new items and no updated
\* count has reported no change: the advice is the 'no changes' one, and the
\* updated count is reported as zero.
C32_Witness ==
  /\ HeadChecked(lastEv)
  /\ ~lastEv.out.changed_since_last_check
  /\ DOMAIN lastEv.headCounts = {"flagged", "new"}
  /\ lastEv.headCounts["flagged"] = MaxCount
  /\ lastEv.headCounts["new"] = 1
  /\ lastEv.out.counts["updated"] = 0
  /\ lastEv.out.next_step = "No changes since last check. Feed is up to date."

====
